---------------------------- MODULE Spec2Model ----------------------------
(***************************************************************************)
(* Assessment session engine of the e-learning platform: the assignment   *)
(* service (auto-grading, late penalty, result feedback, attempt policy),  *)
(* the quiz gate of VideoPlayer, and the QuizInterface / AssignmentInterface*)
(* sessions with their parents VideoPlayer and CoursesView.                *)
(*                                                                         *)
(* Times are milliseconds counted from 2024-01-01T00:00:00Z, so that every *)
(* instant used fits TLC's integers; only differences and comparisons of   *)
(* instants are ever taken by the code.                                    *)
(***************************************************************************)
EXTENDS Integers, Sequences, FiniteSets, TLC

(***************************************************************************)
(* JavaScript values held in answer maps and question fields: undefined,   *)
(* a number, or a string (a sequence of one-character strings).  One record*)
(* shape for all three, so that === is record equality.                    *)
(***************************************************************************)
Undefined == [t |-> "undefined", n |-> 0, s |-> <<>>]
Num(i) == [t |-> "number", n |-> i, s |-> <<>>]
Str(cs) == [t |-> "string", n |-> 0, s |-> cs]

\* An optional number field (latePenalty?: number): <<>> when absent.
None == <<>>
Some(x) == <<x>>
\* JavaScript truthiness of an optional number: absent and 0 are falsy.
TruthyNum(o) == o # None /\ o[1] # 0

\* String.prototype.toLowerCase over the model's alphabet.
LowerChar(c) == IF c = "A" THEN "a" ELSE IF c = "B" THEN "b" ELSE c
toLowerCase(cs) == [i \in 1..Len(cs) |-> LowerChar(cs[i])]

\* String.prototype.trim: strips leading and trailing white space.
RECURSIVE trimStart(_)
trimStart(cs) == IF cs # <<>> /\ Head(cs) = " " THEN trimStart(Tail(cs)) ELSE cs
RECURSIVE trimEnd(_)
trimEnd(cs) ==
    IF cs # <<>> /\ cs[Len(cs)] = " " THEN trimEnd(SubSeq(cs, 1, Len(cs) - 1)) ELSE cs
trim(cs) == trimEnd(trimStart(cs))

\* Number.prototype.toString for the non-negative integers of the model.
Digit(d) == <<"0", "1", "2", "3", "4", "5", "6", "7", "8", "9">>[d + 1]
RECURSIVE numToString(_)
numToString(i) == IF i < 10 THEN <<Digit(i)>> ELSE numToString(i \div 10) \o <<Digit(i % 10)>>

\* v?.toString().toLowerCase().trim(): undefined stays undefined.
normalizeAnswer(v) ==
    IF v.t = "undefined" THEN Undefined
    ELSE Str(trim(toLowerCase(IF v.t = "number" THEN numToString(v.n) ELSE v.s)))

\* Math.round of num/den for num >= 0, den > 0 (round half up).
MathRound(num, den) == (2 * num + den) \div (2 * den)
\* Math.round((part / whole) * 100) in IEEE-754 binary64, for 0 <= part <= whole,
\* whole > 0.  The quotient is rounded to a double and so is the product; the
\* product can differ from 100 * part / whole only in its last bits, which
\* changes Math.round only where 100 * part / whole is exactly k + 1/2, that is
\* where part / whole = m / 200 with m odd.  For the odd m below the double
\* product lies just under k + 1/2 (23/40 * 100 is 57.49999999999999) and
\* Math.round yields k; for every other odd m it is k + 1/2 or just above.
HalfLostInBinary64 == {29, 57, 113, 115}
roundedPercent(part, whole) ==
    IF (200 * part) % whole = 0 /\ ((200 * part) \div whole) \in HalfLostInBinary64
    THEN (100 * part) \div whole
    ELSE MathRound(100 * part, whole)
\* Math.ceil of a/b for b > 0, a of either sign.
MathCeil(a, b) == -((-a) \div b)
MathMin(a, b) == IF a < b THEN a ELSE b
MathMax(a, b) == IF a > b THEN a ELSE b

\* 1000 * 60 * 60 * 24
MsPerDay == 86400000
\* Math.floor((Date.now() - startedAt) / 1000): milliseconds to whole seconds.
MsPerSecond == 1000
MsPerHour == 3600000

(***************************************************************************)
(* Questions.  An answer map is a function from question ids to values;    *)
(* a question the learner never touched maps to Undefined.                 *)
(***************************************************************************)
QuestionIds == {"q1", "q2"}

Question(id, type, correctAnswer, points, explanation, required) ==
    [id |-> id, type |-> type, correctAnswer |-> correctAnswer, points |-> points,
     explanation |-> explanation, required |-> required]

NoAnswers == [q \in QuestionIds |-> Undefined]

RECURSIVE totalPointsOf(_)
\* totalPoints += question.points over assignment.questions.
totalPointsOf(qs) == IF qs = <<>> THEN 0 ELSE Head(qs).points + totalPointsOf(Tail(qs))

(***************************************************************************)
(* assignmentService.autoGradeSubmission                                   *)
(***************************************************************************)
\* The per-question test of autoGradeSubmission: does the question earn its points?
autoGradeEarns(question, userAnswer) ==
    IF question.type = "multiple-choice" THEN userAnswer = question.correctAnswer
    ELSE IF question.type = "short-answer"
         THEN normalizeAnswer(question.correctAnswer) = normalizeAnswer(userAnswer)
    ELSE FALSE

RECURSIVE earnedPointsOf(_, _)
earnedPointsOf(qs, answers) ==
    IF qs = <<>> THEN 0
    ELSE (IF autoGradeEarns(Head(qs), answers[Head(qs).id]) THEN Head(qs).points ELSE 0)
         + earnedPointsOf(Tail(qs), answers)

\* const score = totalPoints > 0 ? Math.round((earnedPoints / totalPoints) * 100) : 0
autoGradeRawScore(submission, assignment) ==
    LET totalPoints == totalPointsOf(assignment.questions)
        earnedPoints == earnedPointsOf(assignment.questions, submission.answers)
    IN  IF totalPoints > 0 THEN roundedPercent(earnedPoints, totalPoints) ELSE 0

\* The number of days late with whole days counted only (floor in place of ceil).
daysLateFloor(submission, assignment) ==
    (submission.submittedAt - assignment.dueDate) \div MsPerDay

\* const daysLate = Math.ceil((submittedAt - dueDate) / (1000 * 60 * 60 * 24))
daysLateOf(submission, assignment) ==
    MathCeil(submission.submittedAt - assignment.dueDate, MsPerDay)

\* The late-penalty block with the isLate test dropped.
applyLatePenaltyAlways(score, submission, assignment) ==
    IF TruthyNum(assignment.latePenalty)
    THEN LET penalty == MathMin(assignment.latePenalty[1] * daysLateOf(submission, assignment), 100)
         IN  MathMax(0, score - penalty)
    ELSE score

\* The late-penalty block without the clamp at 0.
applyLatePenaltyUnclamped(score, submission, assignment) ==
    IF submission.isLate /\ TruthyNum(assignment.latePenalty)
    THEN LET penalty == MathMin(assignment.latePenalty[1] * daysLateOf(submission, assignment), 100)
         IN  score - penalty
    ELSE score

\* The late-penalty block: applied iff submission.isLate && assignment.latePenalty.
applyLatePenalty(score, submission, assignment) ==
    IF submission.isLate /\ TruthyNum(assignment.latePenalty)
    THEN LET penalty == MathMin(assignment.latePenalty[1] * daysLateOf(submission, assignment), 100)
         IN  MathMax(0, score - penalty)
    ELSE score

autoGradeSubmission(submission, assignment) ==
    applyLatePenalty(autoGradeRawScore(submission, assignment), submission, assignment)

(***************************************************************************)
(* assignmentService.calculateAssignmentResult, with the clock read        *)
(* (new Date()) passed in as now.                                          *)
(***************************************************************************)
\* The visibility test with "at or after" in place of "strictly after".
canViewAnswersAtOrAfter(assignment, now) ==
    assignment.showAnswersAfterDeadline /\ now >= assignment.dueDate

canViewAnswersAt(assignment, now) ==
    assignment.showAnswersAfterDeadline /\ now > assignment.dueDate

questionFeedback(question, userAnswer, canViewAnswers) ==
    LET autoGraded == question.type \in {"multiple-choice", "short-answer"}
        correct == autoGradeEarns(question, userAnswer)
    IN  [questionId |-> question.id,
         isCorrect |-> IF ~autoGraded THEN "undefined" ELSE IF correct THEN "true" ELSE "false",
         userAnswer |-> userAnswer,
         correctAnswer |-> IF canViewAnswers THEN question.correctAnswer ELSE Undefined,
         explanation |-> IF canViewAnswers THEN question.explanation ELSE Undefined,
         points |-> question.points,
         earnedPoints |-> IF autoGraded /\ correct THEN question.points ELSE 0]

calculateAssignmentResult(submission, assignment, now) ==
    LET canViewAnswers == canViewAnswersAt(assignment, now)
    IN  [submission |-> submission,
         assignment |-> assignment,
         feedback |-> [i \in 1..Len(assignment.questions) |->
                          questionFeedback(assignment.questions[i],
                                           submission.answers[assignment.questions[i].id],
                                           canViewAnswers)],
         canViewAnswers |-> canViewAnswers]

(***************************************************************************)
(* assignmentService.canSubmitAssignment (the attempt policy of            *)
(* assignments), with the clock read passed in as now; submissions is the  *)
(* list handed in by the caller.                                           *)
(***************************************************************************)
isAssignmentOverdueAt(assignment, now) == now > assignment.dueDate

\* The policy with the unlimited sentinel tested as "not 0" instead of "> 0".
canSubmitAssignmentNonZero(assignment, submissions, now) ==
    IF now > assignment.dueDate /\ ~assignment.allowLateSubmission THEN FALSE
    ELSE IF Len(submissions) >= assignment.maxAttempts /\ assignment.maxAttempts # 0 THEN FALSE
    ELSE TRUE

\* The policy with the attempt cap off by one.
canSubmitAssignmentOffByOne(assignment, submissions, now) ==
    IF now > assignment.dueDate /\ ~assignment.allowLateSubmission THEN FALSE
    ELSE IF Len(submissions) > assignment.maxAttempts /\ assignment.maxAttempts > 0 THEN FALSE
    ELSE TRUE

\* The policy with the due-date rule skipped for unlimited attempts.
canSubmitAssignmentUnlimitedFirst(assignment, submissions, now) ==
    IF assignment.maxAttempts <= 0 THEN TRUE
    ELSE IF now > assignment.dueDate /\ ~assignment.allowLateSubmission THEN FALSE
    ELSE IF Len(submissions) >= assignment.maxAttempts THEN FALSE
    ELSE TRUE

canSubmitAssignment(assignment, submissions, now) ==
    IF now > assignment.dueDate /\ ~assignment.allowLateSubmission THEN FALSE
    ELSE IF Len(submissions) >= assignment.maxAttempts /\ assignment.maxAttempts > 0 THEN FALSE
    ELSE TRUE

(***************************************************************************)
(* VideoPlayer: the quiz gate.  quiz.maxAttempts is optional; the code     *)
(* reads it as (quiz.maxAttempts || 3).                                    *)
(***************************************************************************)
DefaultMaxAttempts == 3

maxAttemptsOrDefault(maxAttempts) ==
    IF TruthyNum(maxAttempts) THEN maxAttempts[1] ELSE DefaultMaxAttempts

\* getQuizStatus
getQuizStatus(quizAttempts, maxAttempts) ==
    [hasAttempts |-> Len(quizAttempts) > 0,
     hasPassed |-> \E i \in 1..Len(quizAttempts) : quizAttempts[i].passed,
     attemptCount |-> Len(quizAttempts),
     maxAttempts |-> maxAttemptsOrDefault(maxAttempts)]

\* The condition under which "Maximum attempts reached" replaces the start button.
quizAttemptsExhausted(quizAttempts, maxAttempts) ==
    LET quizStatus == getQuizStatus(quizAttempts, maxAttempts)
    IN  /\ quizStatus.attemptCount >= maxAttemptsOrDefault(maxAttempts)
        /\ maxAttempts # Some(-1)
        /\ ~quizStatus.hasPassed

(***************************************************************************)
(* Quiz grading.  QuizInterface.calculateResults computes the result shown *)
(* to the learner; VideoPlayer.handleQuizSubmit computes, on its own, the  *)
(* score and verdict of the attempt it persists.  Both count correct       *)
(* questions and ignore the questions' points.                             *)
(***************************************************************************)
DefaultPassingScore == 70

\* quiz.passingScore || 70
passingScoreOrDefault(passingScore) ==
    IF TruthyNum(passingScore) THEN passingScore[1] ELSE DefaultPassingScore

\* The isCorrect of calculateResults for one question.
calculateResultsIsCorrect(question, userAnswer) ==
    IF question.type = "multiple-choice" THEN userAnswer = question.correctAnswer
    ELSE IF question.type = "short-answer"
         THEN normalizeAnswer(question.correctAnswer) = normalizeAnswer(userAnswer)
    ELSE FALSE

RECURSIVE calculateResultsCount(_, _)
calculateResultsCount(qs, answers) ==
    IF qs = <<>> THEN 0
    ELSE (IF calculateResultsIsCorrect(Head(qs), answers[Head(qs).id]) THEN 1 ELSE 0)
         + calculateResultsCount(Tail(qs), answers)

calculateResults(q, answers) ==
    LET correctAnswers == calculateResultsCount(q.questions, answers)
        totalQuestions == Len(q.questions)
        score == roundedPercent(correctAnswers, totalQuestions)
    IN  [score |-> score,
         passed |-> score >= passingScoreOrDefault(q.passingScore),
         feedback |-> [i \in 1..Len(q.questions) |->
             [questionId |-> q.questions[i].id,
              isCorrect |-> calculateResultsIsCorrect(q.questions[i], answers[q.questions[i].id]),
              userAnswer |-> answers[q.questions[i].id],
              correctAnswer |-> q.questions[i].correctAnswer,
              explanation |-> q.questions[i].explanation]]]

\* v?.toString().toLowerCase(): handleQuizSubmit does not trim.
lowerAnswer(v) ==
    IF v.t = "undefined" THEN Undefined
    ELSE Str(toLowerCase(IF v.t = "number" THEN numToString(v.n) ELSE v.s))

handleQuizSubmitIsCorrect(question, userAnswer) ==
    IF question.type = "multiple-choice" THEN userAnswer = question.correctAnswer
    ELSE IF question.type = "short-answer"
         THEN lowerAnswer(question.correctAnswer) = lowerAnswer(userAnswer)
    ELSE FALSE

RECURSIVE handleQuizSubmitCount(_, _)
handleQuizSubmitCount(qs, answers) ==
    IF qs = <<>> THEN 0
    ELSE (IF handleQuizSubmitIsCorrect(Head(qs), answers[Head(qs).id]) THEN 1 ELSE 0)
         + handleQuizSubmitCount(Tail(qs), answers)

\* The attempt handleQuizSubmit hands to saveQuizAttempt.
completedAttemptOf(currentAttempt, q, answers, at) ==
    LET score == roundedPercent(handleQuizSubmitCount(q.questions, answers), Len(q.questions))
    IN  [id |-> currentAttempt.id, startedAt |-> currentAttempt.startedAt,
         answers |-> answers, score |-> score,
         passed |-> score >= passingScoreOrDefault(q.passingScore),
         completedAt |-> at,
         timeSpent |-> (at - currentAttempt.startedAt) \div MsPerSecond]

(***************************************************************************)
(* quizService.calculateQuizResult: the feedback of a stored attempt.       *)
(***************************************************************************)
calculateQuizResultIsCorrect(question, userAnswer) ==
    IF question.type = "multiple-choice" THEN userAnswer = question.correctAnswer
    ELSE IF question.type = "short-answer"
         THEN normalizeAnswer(question.correctAnswer) = normalizeAnswer(userAnswer)
    ELSE FALSE

calculateQuizResult(attempt, q) ==
    [attempt |-> attempt,
     quiz |-> q,
     feedback |-> [i \in 1..Len(q.questions) |->
        LET question == q.questions[i]
            userAnswer == attempt.answers[question.id]
            isCorrect == calculateQuizResultIsCorrect(question, userAnswer)
        IN  [questionId |-> question.id,
             isCorrect |-> isCorrect,
             userAnswer |-> userAnswer,
             correctAnswer |-> question.correctAnswer,
             explanation |-> question.explanation,
             points |-> question.points,
             earnedPoints |-> IF isCorrect THEN question.points ELSE 0]]]

\* Object.keys(answers).filter(k => answers[k] !== undefined && answers[k] !== '').length
getAnsweredCount(answers) ==
    Cardinality({k \in DOMAIN answers : answers[k] # Undefined /\ answers[k] # Str(<<>>)})

\* A submit button that is never disabled for unanswered questions.
quizCanSubmitAlways(q, answers) == Len(q.questions) >= 0

\* QuizInterface.canSubmit
quizCanSubmit(q, answers) == getAnsweredCount(answers) = Len(q.questions)

\* AssignmentInterface.getRequiredAnsweredCount / canSubmitAssignment
getRequiredAnsweredCount(a, answers) ==
    Cardinality({i \in 1..Len(a.questions) :
        /\ a.questions[i].required
        /\ answers[a.questions[i].id] # Undefined
        /\ answers[a.questions[i].id] # Str(<<>>)})

requiredAnswered(a, answers) ==
    getRequiredAnsweredCount(a, answers)
        = Cardinality({i \in 1..Len(a.questions) : a.questions[i].required})

\* timeLimit * 60: minutes to seconds.
SecondsPerMinute == 60
\* The initial countdown without the conversion to seconds.
initialTimeRemainingInMinutes(timeLimit) == timeLimit
initialTimeRemaining(timeLimit) == timeLimit * SecondsPerMinute

(***************************************************************************)
(* Inputs of the service calls.                                            *)
(***************************************************************************)
\* 2024-01-10T00:00:00Z, nine days after the origin of the model's time axis.
DueDate == 9 * MsPerDay

\* Instants around the due date at which the clock is read.
Times ==
    {DueDate - 2 * MsPerDay, DueDate - 1, DueDate, DueDate + 1,
     DueDate + MsPerDay, DueDate + MsPerDay + 1, DueDate + 2 * MsPerDay + MsPerHour}

\* Two multiple-choice questions worth 2 and 3 points.
ChoiceQuestions ==
    << Question("q1", "multiple-choice", Num(1), 2, Str(<<"x">>), TRUE),
       Question("q2", "multiple-choice", Num(0), 3, Undefined, TRUE) >>

\* A short-answer question and an essay.
TextQuestions ==
    << Question("q1", "short-answer", Str(<<"a">>), 1, Str(<<"x">>), TRUE),
       Question("q2", "essay", Undefined, 2, Undefined, FALSE) >>

\* A multiple-choice question and a file upload.
UploadQuestions ==
    << Question("q1", "multiple-choice", Num(0), 1, Str(<<"x">>), TRUE),
       Question("q2", "file-upload", Undefined, 1, Undefined, FALSE) >>

\* Scenario C: answering the 9-point question alone gives a raw score of 90.
ScenarioCQuestions ==
    << Question("q1", "multiple-choice", Num(1), 9, Undefined, TRUE),
       Question("q2", "multiple-choice", Num(0), 1, Undefined, TRUE) >>

\* 23 of 40 points: 100 * 23 / 40 is exactly 57 + 1/2.
HalfwayQuestions ==
    << Question("q1", "multiple-choice", Num(1), 23, Undefined, TRUE),
       Question("q2", "multiple-choice", Num(0), 17, Undefined, TRUE) >>

\* A short-answer question left with the key the builders give it when the type is
\* switched to short-answer (correctAnswer: ''), and an essay.
EmptyKeyQuestions ==
    << Question("q1", "short-answer", Str(<<>>), 1, Undefined, TRUE),
       Question("q2", "essay", Str(<<>>), 2, Undefined, FALSE) >>

QuestionLists ==
    {ChoiceQuestions, TextQuestions, UploadQuestions, ScenarioCQuestions, HalfwayQuestions,
     EmptyKeyQuestions}

\* The question lists of quizzes (a quiz has no file-upload questions).
QuizQuestionLists == {ChoiceQuestions, TextQuestions, EmptyKeyQuestions}

\* What the answer widgets of a question can put into the answer map.
AnswerValues(question) ==
    IF question.type = "multiple-choice" THEN {Undefined, Num(0), Num(1)}
    ELSE IF question.type = "short-answer"
         THEN {Undefined, Str(<<>>), Str(<<"a">>), Str(<<" ", "A">>), Str(<<"b">>)}
    ELSE {Undefined, Str(<<"a">>)}

AnswerMaps(qs) ==
    {a \in [QuestionIds -> UNION {AnswerValues(qs[i]) : i \in 1..Len(qs)}] :
        \A i \in 1..Len(qs) : a[qs[i].id] \in AnswerValues(qs[i])}

\* Per-day late penalties an author can save: absent, 0, and what parseInt yields.
LatePenalties == {None, Some(0), Some(10), Some(60), Some(-10)}

\* maxAttempts values: -1 (unlimited), 0 and small positive caps.
MaxAttemptsValues == {-1, 0, 1, 2, 3}

\* Largest number of prior attempts handed to the attempt policy.
MaxPrior == 3

Assignment(questions, allowLate, latePenalty, maxAttempts, timeLimit, showAnswers) ==
    [questions |-> questions, dueDate |-> DueDate, allowLateSubmission |-> allowLate,
     latePenalty |-> latePenalty, maxAttempts |-> maxAttempts, timeLimit |-> timeLimit,
     showAnswersAfterDeadline |-> showAnswers]

\* The submission handleAssignmentSubmit builds at clock reading at.
Submission(id, answers, at, dueDate) ==
    [id |-> id, answers |-> answers, submittedAt |-> at, isLate |-> at > dueDate,
     score |-> None, timeSpent |-> 0]

DefaultAssignment == Assignment(ChoiceQuestions, FALSE, Some(10), 1, 0, TRUE)
DefaultSubmission == Submission(0, NoAnswers, DueDate - 2 * MsPerDay, DueDate)

Quiz(questions, timeLimit, passingScore, maxAttempts) ==
    [questions |-> questions, timeLimit |-> timeLimit, passingScore |-> passingScore,
     maxAttempts |-> maxAttempts]

DefaultQuiz == Quiz(ChoiceQuestions, 0, Some(70), None)

\* A completed quiz attempt as getQuizStatus reads it.
PriorAttempt(passed) == [id |-> 0, passed |-> passed]

RECURSIVE SeqsUpTo(_, _)
\* All sequences over S of length at most n.
SeqsUpTo(S, n) ==
    IF n = 0 THEN {<<>>}
    ELSE LET shorter == SeqsUpTo(S, n - 1)
         IN  shorter \cup {Append(q, x) : q \in shorter, x \in S}

\* k copies of x.
Copies(x, k) == [i \in 1..k |-> x]

(***************************************************************************)
(* State.                                                                  *)
(***************************************************************************)
VARIABLES
    \* one call of a service function (SpecService)
    svcCall,      \* the function being called, "none" outside SpecService
    svcReturn,    \* <<value>> once the call has returned, <<>> before
    submission,   \* the AssignmentSubmission handed to the service
    submissions,  \* the submissions list handed to canSubmitAssignment
    \* configuration and clock
    assignment,   \* the Assignment at hand (selectedAssignment)
    quiz,         \* the Quiz at hand
    now,          \* the clock (new Date())
    \* QuizInterface / AssignmentInterface: state of the mounted component
    subject,      \* "quiz" or "assignment": what the learner is working on
    answers,      \* answers
    timeRemaining,\* timeRemaining: <<>> for null, <<seconds>> otherwise
    expiryEffect, \* the committed, not yet run, timeRemaining === 0 effect
    quizStarted, quizCompleted, quizResult,
    assignmentStarted, assignmentCompleted, showResults,
    \* VideoPlayer
    quizAttempts, showQuiz, currentAttempt, isLoading,
    \* VideoPlayer: the video and the gate in front of the quiz
    requireVideoCompletion, \* prop (lecture.requireVideoCompletion)
    isInstructor,           \* prop
    isVideoCompleted,       \* state
    videoProgress,          \* state, in percent
    progressInterval,       \* <<>> or <<isVideoCompleted as the running interval's closure holds it>>
    autoShowTimeouts,       \* number of setTimeout(() => setShowQuiz(true)) not yet run
    attemptsRequested,      \* loadQuizAttempts is awaiting getQuizAttempts
    videoWatched,           \* history: the player has ended or reported at least 90 percent
    \* CoursesView
    showAssignmentInterface, assignmentSubmissions, assignmentResults, assignmentLoading,
    \* the document store and the saves under way
    dbQuizAttempts,   \* collection quiz_attempts
    dbSubmissions,    \* collection assignment_submissions
    pendingSaves,     \* saveQuizAttempt / saveAssignmentSubmission calls awaited
    \* history
    starts,       \* number of attempts started (handleStart calls)
    startedAt,    \* <<the clock at the latest handleStart>>, <<>> before the first
    submitLog     \* history: one entry per onSubmit call

svcVars == <<svcCall, svcReturn, submission, submissions>>
cfgVars == <<assignment, quiz>>
quizUiVars == <<quizStarted, quizCompleted, quizResult>>
assignmentUiVars == <<assignmentStarted, assignmentCompleted, showResults>>
playerVars == <<quizAttempts, showQuiz, currentAttempt, isLoading>>
videoVars ==
    <<requireVideoCompletion, isInstructor, isVideoCompleted, videoProgress,
      progressInterval, autoShowTimeouts, attemptsRequested, videoWatched>>
coursesVars ==
    <<showAssignmentInterface, assignmentSubmissions, assignmentResults, assignmentLoading>>
quizSideVars == <<quizUiVars, playerVars, dbQuizAttempts>>
assignmentSideVars == <<assignmentUiVars, coursesVars, dbSubmissions>>
sessionVars ==
    <<startedAt, subject, answers, timeRemaining, expiryEffect, pendingSaves, starts, submitLog,
      quizUiVars, assignmentUiVars, showQuiz, currentAttempt, isLoading, coursesVars,
      dbQuizAttempts, dbSubmissions>>
vars ==
    <<svcVars, cfgVars, videoVars, startedAt, now, subject, answers, timeRemaining, expiryEffect, quizUiVars,
      assignmentUiVars, playerVars, coursesVars, dbQuizAttempts, dbSubmissions,
      pendingSaves, starts, submitLog>>

\* No session: nothing mounted, nothing stored, nothing under way.
NoSession ==
    /\ timeRemaining = None
    /\ expiryEffect = None
    /\ quizStarted = FALSE /\ quizCompleted = FALSE /\ quizResult = None
    /\ assignmentStarted = FALSE /\ assignmentCompleted = FALSE /\ showResults = FALSE
    /\ showQuiz = FALSE /\ currentAttempt = None /\ isLoading = FALSE
    /\ showAssignmentInterface = FALSE /\ assignmentSubmissions = None
    /\ assignmentResults = None /\ assignmentLoading = FALSE
    /\ dbSubmissions = <<>>
    /\ pendingSaves = <<>>
    /\ starts = 0
    /\ startedAt = None
    /\ submitLog = <<>>

\* A lecture that does not require its video to be completed, and a learner with no
\* stored attempt: nothing stands between the learner and the quiz.
NoVideoGate ==
    /\ dbQuizAttempts = <<>>
    /\ requireVideoCompletion = FALSE
    /\ isInstructor = FALSE
    /\ isVideoCompleted = FALSE
    /\ videoProgress = 0
    /\ progressInterval = None
    /\ autoShowTimeouts = 0
    /\ attemptsRequested = FALSE
    /\ videoWatched = FALSE

(***************************************************************************)
(* SpecService: one call of a service function on arguments drawn from the *)
(* input sets above.                                                       *)
(***************************************************************************)
InitAutoGrade ==
    /\ svcCall = "autoGradeSubmission"
    /\ answers = NoAnswers
    /\ now \in Times
    /\ \E qs \in QuestionLists, lp \in LatePenalties :
          /\ assignment = Assignment(qs, TRUE, lp, 1, 0, TRUE)
          /\ \E a \in AnswerMaps(qs) : submission = Submission(1, a, now, DueDate)
    /\ submissions = <<>>
    /\ quiz = DefaultQuiz
    /\ quizAttempts = <<>>

InitCalculateResult ==
    /\ svcCall = "calculateAssignmentResult"
    /\ answers = NoAnswers
    /\ now \in Times
    /\ \E qs \in QuestionLists, show \in BOOLEAN :
          /\ assignment = Assignment(qs, TRUE, Some(10), 1, 0, show)
          /\ \E a \in AnswerMaps(qs), at \in {t \in Times : t <= now} :
                submission = Submission(1, a, at, DueDate)
    /\ submissions = <<>>
    /\ quiz = DefaultQuiz
    /\ quizAttempts = <<>>

InitCanSubmit ==
    /\ svcCall = "canSubmitAssignment"
    /\ answers = NoAnswers
    /\ now \in Times
    /\ \E allowLate \in BOOLEAN, m \in MaxAttemptsValues :
          assignment = Assignment(ChoiceQuestions, allowLate, Some(10), m, 0, TRUE)
    /\ submission = DefaultSubmission
    /\ \E k \in 0..MaxPrior : submissions = Copies(DefaultSubmission, k)
    /\ quiz = DefaultQuiz
    /\ quizAttempts = <<>>

InitQuizGate ==
    /\ svcCall = "quizGate"
    /\ answers = NoAnswers
    /\ now = DueDate
    /\ assignment = DefaultAssignment
    /\ submission = DefaultSubmission
    /\ submissions = <<>>
    /\ \E m \in {None} \cup {Some(x) : x \in MaxAttemptsValues} :
          quiz = Quiz(ChoiceQuestions, 0, Some(70), m)
    /\ quizAttempts \in SeqsUpTo({PriorAttempt(FALSE), PriorAttempt(TRUE)}, MaxPrior)

\* The three gradings of a quiz: the result QuizInterface shows, the attempt
\* VideoPlayer persists, and the feedback quizService computes; answers is the
\* answer map they are given.
QuizGradingCalls == {"calculateResults", "handleQuizSubmit", "calculateQuizResult"}

InitQuizGrading ==
    /\ svcCall \in QuizGradingCalls
    /\ now = DueDate
    /\ assignment = DefaultAssignment
    /\ submission = DefaultSubmission
    /\ submissions = <<>>
    /\ quizAttempts = <<>>
    /\ \E qs \in QuizQuestionLists :
          /\ quiz = Quiz(qs, 0, Some(70), None)
          /\ answers \in AnswerMaps(qs)

InitService ==
    /\ svcReturn = None
    /\ subject = "none"
    /\ NoSession
    /\ NoVideoGate
    /\ \/ InitAutoGrade
       \/ InitCalculateResult
       \/ InitCanSubmit
       \/ InitQuizGate
       \/ InitQuizGrading

Returned == Len(svcReturn) = 1

AutoGrade ==
    /\ svcCall = "autoGradeSubmission" /\ ~Returned
    /\ svcReturn' = <<autoGradeSubmission(submission, assignment)>>
    /\ UNCHANGED <<svcCall, submission, submissions, cfgVars, videoVars, now, quizAttempts, sessionVars>>

CalculateResult ==
    /\ svcCall = "calculateAssignmentResult" /\ ~Returned
    /\ svcReturn' = <<calculateAssignmentResult(submission, assignment, now)>>
    /\ UNCHANGED <<svcCall, submission, submissions, cfgVars, videoVars, now, quizAttempts, sessionVars>>

CanSubmit ==
    /\ svcCall = "canSubmitAssignment" /\ ~Returned
    /\ svcReturn' = <<canSubmitAssignment(assignment, submissions, now)>>
    /\ UNCHANGED <<svcCall, submission, submissions, cfgVars, videoVars, now, quizAttempts, sessionVars>>

\* The render of VideoPlayer's quiz actions: is the start button offered?
QuizGate ==
    /\ svcCall = "quizGate" /\ ~Returned
    /\ svcReturn' = <<~quizAttemptsExhausted(quizAttempts, quiz.maxAttempts)>>
    /\ UNCHANGED <<svcCall, submission, submissions, cfgVars, videoVars, now, quizAttempts, sessionVars>>

\* QuizInterface.calculateResults on the answers of the component.
CalculateResults ==
    /\ svcCall = "calculateResults" /\ ~Returned
    /\ svcReturn' = <<calculateResults(quiz, answers)>>
    /\ UNCHANGED <<svcCall, submission, submissions, cfgVars, videoVars, now, quizAttempts, sessionVars>>

\* The grading of VideoPlayer.handleQuizSubmit(answers): the attempt it hands to
\* saveQuizAttempt.
HandleQuizSubmitGrading ==
    /\ svcCall = "handleQuizSubmit" /\ ~Returned
    /\ svcReturn' = <<completedAttemptOf([id |-> 1, startedAt |-> now], quiz, answers, now)>>
    /\ UNCHANGED <<svcCall, submission, submissions, cfgVars, videoVars, now, quizAttempts, sessionVars>>

\* quizService.calculateQuizResult on an attempt holding the answers.
CalculateQuizResult ==
    /\ svcCall = "calculateQuizResult" /\ ~Returned
    /\ svcReturn' = <<calculateQuizResult([id |-> 1, answers |-> answers], quiz)>>
    /\ UNCHANGED <<svcCall, submission, submissions, cfgVars, videoVars, now, quizAttempts, sessionVars>>

NextService ==
    \/ AutoGrade
    \/ CalculateResult
    \/ CanSubmit
    \/ QuizGate
    \/ CalculateResults
    \/ HandleQuizSubmitGrading
    \/ CalculateQuizResult

SpecService == InitService /\ [][NextService]_vars

(***************************************************************************)
(* SpecSession: one learner working on one quiz (VideoPlayer mounting      *)
(* QuizInterface) or on one assignment (CoursesView mounting               *)
(* AssignmentInterface).  An event handler runs as one step.  An async     *)
(* handler runs up to its await of the save in one step; the save then     *)
(* resolves or rejects in a later step.  The effect that submits at        *)
(* timeRemaining === 0 is a passive effect: it is committed by the render  *)
(* of the last tick and runs afterwards with the values of that render, so *)
(* one user event can be handled between the two.                          *)
(***************************************************************************)
\* Bound on the number of attempts one learner starts.
MaxStarts == 2
\* Bound on the number of onSubmit calls, so that retries after a failed save end.
MaxSubmits == 3

SessionTimeLimits == {0, 1}
SessionQuizMaxAttempts == {Some(1), Some(2)}
SessionAssignmentMaxAttempts == {1, 2}
SessionTimes == {DueDate - MsPerDay, DueDate + 1}
SessionAnswerValues == {Num(0), Num(1)}
\* One multiple-choice question, answered right by option 1.
SessionQuestions == << Question("q1", "multiple-choice", Num(1), 2, Str(<<"x">>), TRUE) >>

InitSessionIdle ==
    /\ svcCall = "none"
    /\ svcReturn = None
    /\ submission = DefaultSubmission
    /\ submissions = <<>>
    /\ quizAttempts = <<>>
    /\ answers = NoAnswers
    /\ NoSession
    /\ NoVideoGate

InitQuizSession ==
    /\ subject = "quiz"
    /\ InitSessionIdle
    /\ now = DueDate - MsPerDay
    /\ assignment = DefaultAssignment
    /\ \E t \in SessionTimeLimits, m \in SessionQuizMaxAttempts :
          quiz = Quiz(SessionQuestions, t, Some(70), m)

InitAssignmentSession ==
    /\ subject = "assignment"
    /\ InitSessionIdle
    /\ now = DueDate - MsPerDay
    /\ quiz = DefaultQuiz
    /\ \E t \in SessionTimeLimits, m \in SessionAssignmentMaxAttempts :
          assignment = Assignment(SessionQuestions, TRUE, Some(10), m, t, TRUE)

InitSession == InitQuizSession \/ InitAssignmentSession

\* The committed expiry effect, and what a user event does to it: the event is
\* handled first, the effect runs before the next render.
EffectPending == expiryEffect # None
EffectOverdue == EffectPending /\ expiryEffect[1].stale
UserEvent ==
    /\ ~EffectOverdue
    /\ expiryEffect' = IF EffectPending
                       THEN <<[expiryEffect[1] EXCEPT !.stale = TRUE]>>
                       ELSE None
Snapshot(a, parentState) == <<[answers |-> a, parent |-> parentState, stale |-> FALSE]>>

\* Removal of the i-th element of a sequence.
RemoveAt(q, i) == [j \in 1..(Len(q) - 1) |-> IF j < i THEN q[j] ELSE q[j + 1]]

\* The entry of submitLog for a call of onSubmit: the attempt it was for, its origin
\* and the record it handed to the store (<<>> when it handed none).
Logged(via, savesBefore, savesAfter) ==
    [attempt |-> starts, via |-> via,
     saved |-> IF Len(savesAfter) > Len(savesBefore)
               THEN Some(savesAfter[Len(savesAfter)].record)
               ELSE None]

\* The countdown timeout of both interfaces: setTimeRemaining(timeRemaining - 1).
tickDown(seconds) == seconds - 1

(***************************************************************************)
(* Quiz: VideoPlayer and QuizInterface.                                    *)
(***************************************************************************)
\* Which of its views QuizInterface renders.
QuizView ==
    IF ~showQuiz THEN "closed"
    ELSE IF quizCompleted /\ quizResult # None THEN "results"
    ELSE IF ~quizStarted THEN "instructions"
    ELSE "taking"

\* State of a QuizInterface that is not mounted; a mount starts from it.
QuizUnmounted ==
    /\ answers' = NoAnswers
    /\ timeRemaining' = None
    /\ quizStarted' = FALSE
    /\ quizCompleted' = FALSE
    /\ quizResult' = None

\* The quiz is unlocked regardless of the video.
canAccessQuizUngated == requireVideoCompletion \/ ~requireVideoCompletion

\* canAccessQuiz = !requireVideoCompletion || isVideoCompleted || isInstructor
canAccessQuiz == ~requireVideoCompletion \/ isVideoCompleted \/ isInstructor

\* VideoPlayer's start button: onClick={() => setShowQuiz(true)}, rendered when
\* canAccessQuiz and the attempts are not exhausted.
SetShowQuiz ==
    /\ subject = "quiz"
    /\ ~showQuiz
    /\ canAccessQuiz
    /\ ~EffectPending
    /\ ~quizAttemptsExhausted(quizAttempts, quiz.maxAttempts)
    /\ currentAttempt = None
    /\ showQuiz' = TRUE
    /\ UNCHANGED <<svcVars, cfgVars, videoVars, startedAt, now, subject, answers, timeRemaining, expiryEffect,
                   quizUiVars, quizAttempts, currentAttempt, isLoading, dbQuizAttempts,
                   assignmentSideVars, pendingSaves, starts, submitLog>>

\* A start that sets the countdown whatever the time limit is.
QuizHandleStartAlwaysTimed ==
    /\ subject = "quiz"
    /\ QuizView = "instructions"
    /\ starts < MaxStarts
    /\ UserEvent
    /\ quizStarted' = TRUE
    /\ quizCompleted' = FALSE
    /\ quizResult' = None
    /\ answers' = NoAnswers
    /\ currentAttempt' = Some([id |-> starts + 1, startedAt |-> now])
    /\ timeRemaining' = Some(initialTimeRemaining(quiz.timeLimit))
    /\ starts' = starts + 1
    /\ startedAt' = Some(now)
    /\ UNCHANGED <<svcVars, cfgVars, videoVars, now, subject, quizAttempts, showQuiz, isLoading,
                   dbQuizAttempts, assignmentSideVars, pendingSaves, submitLog>>

\* QuizInterface.handleStart, its onStart (VideoPlayer.handleQuizStart) and the effect
\* that initialises the countdown once quizStarted is set.
QuizHandleStart ==
    /\ subject = "quiz"
    /\ QuizView = "instructions"
    /\ starts < MaxStarts
    /\ UserEvent
    /\ quizStarted' = TRUE
    /\ quizCompleted' = FALSE
    /\ quizResult' = None
    /\ answers' = NoAnswers
    /\ currentAttempt' = Some([id |-> starts + 1, startedAt |-> now])
    /\ timeRemaining' = IF quiz.timeLimit # 0
                        THEN Some(initialTimeRemaining(quiz.timeLimit))
                        ELSE timeRemaining
    /\ starts' = starts + 1
    /\ startedAt' = Some(now)
    /\ UNCHANGED <<svcVars, cfgVars, videoVars, now, subject, quizAttempts, showQuiz, isLoading,
                   dbQuizAttempts, assignmentSideVars, pendingSaves, submitLog>>

\* QuizInterface.handleAnswerChange
QuizHandleAnswerChange ==
    /\ subject = "quiz"
    /\ QuizView = "taking"
    /\ UserEvent
    /\ \E i \in 1..Len(quiz.questions), v \in SessionAnswerValues :
          answers' = [answers EXCEPT ![quiz.questions[i].id] = v]
    /\ UNCHANGED <<svcVars, cfgVars, videoVars, startedAt, now, subject, timeRemaining, quizUiVars, playerVars,
                   dbQuizAttempts, assignmentSideVars, pendingSaves, starts, submitLog>>

\* The countdown effect of QuizInterface, first branch: the timeout set while
\* timeRemaining > 0 fires.  The render with timeRemaining === 0 commits the
\* second branch of the effect.
QuizCountdownTick ==
    /\ subject = "quiz"
    /\ showQuiz
    /\ ~EffectPending
    /\ timeRemaining # None
    /\ timeRemaining[1] > 0
    /\ ~quizCompleted
    /\ timeRemaining' = Some(tickDown(timeRemaining[1]))
    /\ expiryEffect' = IF tickDown(timeRemaining[1]) = 0
                       THEN Snapshot(answers, currentAttempt)
                       ELSE None
    /\ UNCHANGED <<svcVars, cfgVars, videoVars, startedAt, now, subject, answers, quizUiVars, playerVars,
                   dbQuizAttempts, assignmentSideVars, pendingSaves, starts, submitLog>>

\* VideoPlayer.handleQuizSubmit up to its await, for the currentAttempt the caller's
\* render holds.
HandleQuizSubmitCall(withAttempt, withAnswers, via) ==
    IF withAttempt = None
    THEN UNCHANGED <<isLoading, pendingSaves>>
    ELSE /\ isLoading' = TRUE
         /\ pendingSaves' = Append(pendingSaves,
               [attempt |-> withAttempt[1].id, via |-> via,
                record |-> completedAttemptOf(withAttempt[1], quiz, withAnswers, now)])

\* The countdown effect of QuizInterface, second branch: handleSubmit() at
\* timeRemaining === 0 && !quizCompleted, with the values of the render that committed it.
QuizCountdownExpired ==
    /\ subject = "quiz"
    /\ EffectPending
    /\ LET effect == expiryEffect[1]
       IN  /\ IF showQuiz
              THEN /\ quizResult' = Some(calculateResults(quiz, effect.answers))
                   /\ quizCompleted' = TRUE
              ELSE UNCHANGED <<quizResult, quizCompleted>>
           /\ HandleQuizSubmitCall(effect.parent, effect.answers, "timer")
    /\ submitLog' = Append(submitLog, Logged("timer", pendingSaves, pendingSaves'))
    /\ expiryEffect' = None
    /\ UNCHANGED <<svcVars, cfgVars, videoVars, startedAt, now, subject, answers, timeRemaining, quizStarted,
                   quizAttempts, showQuiz, currentAttempt, dbQuizAttempts,
                   assignmentSideVars, starts>>

\* QuizInterface.handleSubmit from the Submit Quiz button
\* (disabled={!canSubmit() || isLoading}).
QuizHandleSubmit ==
    /\ subject = "quiz"
    /\ QuizView = "taking"
    /\ quizCanSubmit(quiz, answers)
    /\ ~isLoading
    /\ UserEvent
    /\ quizResult' = Some(calculateResults(quiz, answers))
    /\ quizCompleted' = TRUE
    /\ HandleQuizSubmitCall(currentAttempt, answers, "manual")
    /\ submitLog' = Append(submitLog, Logged("manual", pendingSaves, pendingSaves'))
    /\ UNCHANGED <<svcVars, cfgVars, videoVars, startedAt, now, subject, answers, timeRemaining, quizStarted,
                   quizAttempts, showQuiz, currentAttempt, dbQuizAttempts,
                   assignmentSideVars, starts>>

\* QuizInterface.handleRetake and its onRetake (VideoPlayer.handleQuizRetake); the
\* button is rendered when !quizResult.passed.
QuizHandleRetake ==
    /\ subject = "quiz"
    /\ QuizView = "results"
    /\ ~quizResult[1].passed
    /\ UserEvent
    /\ quizStarted' = FALSE
    /\ quizCompleted' = FALSE
    /\ quizResult' = None
    /\ answers' = NoAnswers
    /\ timeRemaining' = None
    /\ currentAttempt' = None
    /\ UNCHANGED <<svcVars, cfgVars, videoVars, startedAt, now, subject, quizAttempts, showQuiz, isLoading,
                   dbQuizAttempts, assignmentSideVars, pendingSaves, starts, submitLog>>

\* onCancel of the mounted QuizInterface: setShowQuiz(false); setCurrentAttempt(null).
QuizOnCancel ==
    /\ subject = "quiz"
    /\ QuizView \in {"instructions", "taking"}
    /\ UserEvent
    /\ showQuiz' = FALSE
    /\ currentAttempt' = None
    /\ QuizUnmounted
    /\ UNCHANGED <<svcVars, cfgVars, videoVars, startedAt, now, subject, quizAttempts, isLoading,
                   dbQuizAttempts, assignmentSideVars, pendingSaves, starts, submitLog>>

\* onGoBack of the results view: setShowQuiz(false).
QuizOnGoBack ==
    /\ subject = "quiz"
    /\ QuizView = "results"
    /\ UserEvent
    /\ showQuiz' = FALSE
    /\ QuizUnmounted
    /\ UNCHANGED <<svcVars, cfgVars, videoVars, startedAt, now, subject, quizAttempts, currentAttempt, isLoading,
                   dbQuizAttempts, assignmentSideVars, pendingSaves, starts, submitLog>>

\* await saveQuizAttempt(completedAttempt) resolves: addDoc has added a document, and
\* handleQuizSubmit continues after the await.
SaveQuizAttemptResolved ==
    /\ subject = "quiz"
    /\ ~EffectPending
    /\ \E i \in 1..Len(pendingSaves) :
          /\ dbQuizAttempts' = Append(dbQuizAttempts, pendingSaves[i])
          /\ quizAttempts' = Append(quizAttempts, pendingSaves[i].record)
          /\ pendingSaves' = RemoveAt(pendingSaves, i)
    /\ currentAttempt' = None
    /\ isLoading' = FALSE
    /\ UNCHANGED <<svcVars, cfgVars, videoVars, startedAt, now, subject, answers, timeRemaining, expiryEffect,
                   quizUiVars, showQuiz, assignmentSideVars, starts, submitLog>>

\* await saveQuizAttempt(completedAttempt) rejects: the catch and finally of
\* handleQuizSubmit.
SaveQuizAttemptRejected ==
    /\ subject = "quiz"
    /\ ~EffectPending
    /\ \E i \in 1..Len(pendingSaves) : pendingSaves' = RemoveAt(pendingSaves, i)
    /\ isLoading' = FALSE
    /\ UNCHANGED <<svcVars, cfgVars, videoVars, startedAt, now, subject, answers, timeRemaining, expiryEffect,
                   quizUiVars, quizAttempts, showQuiz, currentAttempt, dbQuizAttempts,
                   assignmentSideVars, starts, submitLog>>

NextQuiz ==
    \/ SetShowQuiz
    \/ QuizHandleStart
    \/ QuizHandleAnswerChange
    \/ QuizCountdownTick
    \/ QuizCountdownExpired
    \/ QuizHandleSubmit
    \/ QuizHandleRetake
    \/ QuizOnCancel
    \/ QuizOnGoBack
    \/ SaveQuizAttemptResolved
    \/ SaveQuizAttemptRejected

(***************************************************************************)
(* Assignment: CoursesView and AssignmentInterface.                        *)
(***************************************************************************)
\* Which of its views AssignmentInterface renders.
AssignmentView ==
    IF ~showAssignmentInterface THEN "closed"
    ELSE IF showResults /\ assignmentResults # None THEN "results"
    ELSE IF ~assignmentStarted /\ assignmentSubmissions = None THEN "instructions"
    ELSE "taking"

\* The canSubmit CoursesView computes, from the latest submission it holds only.
latestOnly == IF assignmentSubmissions = None THEN <<>> ELSE <<assignmentSubmissions[1]>>
canSubmitProp == canSubmitAssignment(assignment, latestOnly, now)

\* State of an AssignmentInterface that is not mounted; a mount starts from it.
AssignmentUnmounted ==
    /\ answers' = NoAnswers
    /\ timeRemaining' = None
    /\ assignmentStarted' = FALSE
    /\ assignmentCompleted' = FALSE
    /\ showResults' = FALSE

\* CoursesView.handleAssignmentSelect from the list (View Results, Retake or Start), then
\* the mount of AssignmentInterface and its effect on [latestSubmission, assignmentResult].
HandleAssignmentSelect ==
    /\ subject = "assignment"
    /\ ~showAssignmentInterface
    /\ ~EffectPending
    /\ assignmentSubmissions # None \/ canSubmitProp
    /\ showAssignmentInterface' = TRUE
    /\ IF assignmentSubmissions # None
       THEN /\ answers' = assignmentSubmissions[1].answers
            /\ assignmentCompleted' = TRUE
            /\ showResults' = (assignmentResults # None)
       ELSE UNCHANGED <<answers, assignmentCompleted, showResults>>
    /\ UNCHANGED <<svcVars, cfgVars, videoVars, startedAt, now, subject, timeRemaining, expiryEffect,
                   assignmentStarted, assignmentSubmissions, assignmentResults,
                   assignmentLoading, dbSubmissions, quizSideVars, pendingSaves, starts,
                   submitLog>>

\* AssignmentInterface.handleStart (button disabled={!canSubmit}) and the effect that
\* initialises the countdown once assignmentStarted is set.
AssignmentHandleStart ==
    /\ subject = "assignment"
    /\ AssignmentView = "instructions"
    /\ canSubmitProp
    /\ starts < MaxStarts
    /\ UserEvent
    /\ assignmentStarted' = TRUE
    /\ assignmentCompleted' = FALSE
    /\ showResults' = FALSE
    /\ answers' = NoAnswers
    /\ timeRemaining' = IF assignment.timeLimit # 0
                        THEN Some(initialTimeRemaining(assignment.timeLimit))
                        ELSE timeRemaining
    /\ starts' = starts + 1
    /\ startedAt' = Some(now)
    /\ UNCHANGED <<svcVars, cfgVars, videoVars, now, subject, coursesVars, dbSubmissions,
                   quizSideVars, pendingSaves, submitLog>>

\* AssignmentInterface.handleAnswerChange
AssignmentHandleAnswerChange ==
    /\ subject = "assignment"
    /\ AssignmentView = "taking"
    /\ UserEvent
    /\ \E i \in 1..Len(assignment.questions), v \in SessionAnswerValues :
          answers' = [answers EXCEPT ![assignment.questions[i].id] = v]
    /\ UNCHANGED <<svcVars, cfgVars, videoVars, startedAt, now, subject, timeRemaining, assignmentUiVars,
                   coursesVars, dbSubmissions, quizSideVars, pendingSaves, starts,
                   submitLog>>

\* The countdown effect of AssignmentInterface, first branch.
AssignmentCountdownTick ==
    /\ subject = "assignment"
    /\ showAssignmentInterface
    /\ ~EffectPending
    /\ timeRemaining # None
    /\ timeRemaining[1] > 0
    /\ ~assignmentCompleted
    /\ timeRemaining' = Some(tickDown(timeRemaining[1]))
    /\ expiryEffect' = IF tickDown(timeRemaining[1]) = 0
                       THEN Snapshot(answers, None)
                       ELSE None
    /\ UNCHANGED <<svcVars, cfgVars, videoVars, startedAt, now, subject, answers, assignmentUiVars, coursesVars,
                   dbSubmissions, quizSideVars, pendingSaves, starts, submitLog>>

\* CoursesView.handleAssignmentSubmit up to its await of saveAssignmentSubmission: a
\* submission with a fresh id, graded by autoGradeSubmission.
HandleAssignmentSubmitCall(withAnswers, via) ==
    LET built == Submission(Len(submitLog) + 1, withAnswers, now, assignment.dueDate)
        graded == [built EXCEPT !.score = Some(autoGradeSubmission(built, assignment))]
    IN  /\ assignmentLoading' = TRUE
        /\ pendingSaves' = Append(pendingSaves, [attempt |-> starts, via |-> via, record |-> graded])

\* The countdown effect of AssignmentInterface, second branch: handleSubmit() at
\* timeRemaining === 0 && !assignmentCompleted, with the values of the render that
\* committed it.
AssignmentCountdownExpired ==
    /\ subject = "assignment"
    /\ EffectPending
    /\ IF showAssignmentInterface
       THEN assignmentCompleted' = TRUE
       ELSE UNCHANGED assignmentCompleted
    /\ HandleAssignmentSubmitCall(expiryEffect[1].answers, "timer")
    /\ submitLog' = Append(submitLog, Logged("timer", pendingSaves, pendingSaves'))
    /\ expiryEffect' = None
    /\ UNCHANGED <<svcVars, cfgVars, videoVars, startedAt, now, subject, answers, timeRemaining,
                   assignmentStarted, showResults, showAssignmentInterface,
                   assignmentSubmissions, assignmentResults, dbSubmissions, quizSideVars,
                   starts>>

\* AssignmentInterface.handleSubmit from the Submit Assignment button
\* (disabled={!canSubmitAssignment() || isLoading}).
AssignmentHandleSubmit ==
    /\ subject = "assignment"
    /\ AssignmentView = "taking"
    /\ requiredAnswered(assignment, answers)
    /\ ~assignmentLoading
    /\ Len(submitLog) < MaxSubmits
    /\ UserEvent
    /\ assignmentCompleted' = TRUE
    /\ HandleAssignmentSubmitCall(answers, "manual")
    /\ submitLog' = Append(submitLog, Logged("manual", pendingSaves, pendingSaves'))
    /\ UNCHANGED <<svcVars, cfgVars, videoVars, startedAt, now, subject, answers, timeRemaining,
                   assignmentStarted, showResults, showAssignmentInterface,
                   assignmentSubmissions, assignmentResults, dbSubmissions, quizSideVars,
                   starts>>

\* AssignmentInterface.handleRetake (rendered when canSubmit) and its onRetake
\* (CoursesView.handleAssignmentRetake), which forgets the submission held in memory.
AssignmentHandleRetake ==
    /\ subject = "assignment"
    /\ AssignmentView = "results"
    /\ canSubmitProp
    /\ UserEvent
    /\ AssignmentUnmounted
    /\ assignmentSubmissions' = None
    /\ assignmentResults' = None
    /\ UNCHANGED <<svcVars, cfgVars, videoVars, startedAt, now, subject, showAssignmentInterface,
                   assignmentLoading, dbSubmissions, quizSideVars, pendingSaves, starts,
                   submitLog>>

\* onCancel: setShowAssignmentInterface(false); setSelectedAssignment(null).
AssignmentOnCancel ==
    /\ subject = "assignment"
    /\ AssignmentView \in {"instructions", "taking"}
    /\ UserEvent
    /\ showAssignmentInterface' = FALSE
    /\ AssignmentUnmounted
    /\ UNCHANGED <<svcVars, cfgVars, videoVars, startedAt, now, subject, assignmentSubmissions,
                   assignmentResults, assignmentLoading, dbSubmissions, quizSideVars,
                   pendingSaves, starts, submitLog>>

\* onGoBack of the results view: the same two updates.
AssignmentOnGoBack ==
    /\ subject = "assignment"
    /\ AssignmentView = "results"
    /\ UserEvent
    /\ showAssignmentInterface' = FALSE
    /\ AssignmentUnmounted
    /\ UNCHANGED <<svcVars, cfgVars, videoVars, startedAt, now, subject, assignmentSubmissions,
                   assignmentResults, assignmentLoading, dbSubmissions, quizSideVars,
                   pendingSaves, starts, submitLog>>

\* await saveAssignmentSubmission(submission) resolves: addDoc has added a document;
\* handleAssignmentSubmit stores the submission and its result, and the mounted
\* interface runs its effect on [latestSubmission, assignmentResult].
SaveAssignmentSubmissionResolved ==
    /\ subject = "assignment"
    /\ ~EffectPending
    /\ \E i \in 1..Len(pendingSaves) :
          LET saved == pendingSaves[i].record
          IN  /\ dbSubmissions' = Append(dbSubmissions, pendingSaves[i])
              /\ assignmentSubmissions' = Some(saved)
              /\ assignmentResults' = Some(calculateAssignmentResult(saved, assignment, now))
              /\ pendingSaves' = RemoveAt(pendingSaves, i)
              /\ IF showAssignmentInterface
                 THEN /\ answers' = saved.answers
                      /\ assignmentCompleted' = TRUE
                      /\ showResults' = TRUE
                 ELSE UNCHANGED <<answers, assignmentCompleted, showResults>>
    /\ assignmentLoading' = FALSE
    /\ UNCHANGED <<svcVars, cfgVars, videoVars, startedAt, now, subject, timeRemaining, expiryEffect,
                   assignmentStarted, showAssignmentInterface, quizSideVars, starts,
                   submitLog>>

\* await saveAssignmentSubmission(submission) rejects: the catch and finally of
\* handleAssignmentSubmit.
SaveAssignmentSubmissionRejected ==
    /\ subject = "assignment"
    /\ ~EffectPending
    /\ \E i \in 1..Len(pendingSaves) : pendingSaves' = RemoveAt(pendingSaves, i)
    /\ assignmentLoading' = FALSE
    /\ UNCHANGED <<svcVars, cfgVars, videoVars, startedAt, now, subject, answers, timeRemaining, expiryEffect,
                   assignmentUiVars, showAssignmentInterface, assignmentSubmissions,
                   assignmentResults, dbSubmissions, quizSideVars, starts, submitLog>>

\* Time passes: the next reading of new Date() is later.
AdvanceClock ==
    /\ subject \in {"quiz", "assignment"}
    /\ ~EffectPending
    /\ \E t \in SessionTimes : t > now /\ now' = t
    /\ UNCHANGED <<svcVars, cfgVars, videoVars, startedAt, subject, answers, timeRemaining,
                   expiryEffect,
                   assignmentSideVars, quizSideVars, pendingSaves, starts, submitLog>>

NextAssignment ==
    \/ HandleAssignmentSelect
    \/ AssignmentHandleStart
    \/ AssignmentHandleAnswerChange
    \/ AssignmentCountdownTick
    \/ AssignmentCountdownExpired
    \/ AssignmentHandleSubmit
    \/ AssignmentHandleRetake
    \/ AssignmentOnCancel
    \/ AssignmentOnGoBack
    \/ SaveAssignmentSubmissionResolved
    \/ SaveAssignmentSubmissionRejected
    \/ AdvanceClock

NextSession == NextQuiz \/ NextAssignment

SpecSession == InitSession /\ [][NextSession]_vars

(***************************************************************************)
(* SpecCountdown: the sessions with a time limit in which the learner      *)
(* neither presses Submit nor cancels.  A timeout that has been set        *)
(* fires, and a committed effect is run: weak fairness of the two branches *)
(* of the countdown effect.  The countdown counts timeouts and never reads *)
(* the wall clock, which stands still here, before or after the due date.  *)
(***************************************************************************)
ConfiguredTimeLimit == IF subject = "quiz" THEN quiz.timeLimit ELSE assignment.timeLimit

InitCountdown == InitSession /\ ConfiguredTimeLimit > 0

NextCountdown ==
    \/ SetShowQuiz
    \/ QuizHandleStart
    \/ QuizHandleAnswerChange
    \/ QuizCountdownTick
    \/ QuizCountdownExpired
    \/ QuizHandleRetake
    \/ QuizOnGoBack
    \/ SaveQuizAttemptResolved
    \/ SaveQuizAttemptRejected
    \/ HandleAssignmentSelect
    \/ AssignmentHandleStart
    \/ AssignmentHandleAnswerChange
    \/ AssignmentCountdownTick
    \/ AssignmentCountdownExpired
    \/ AssignmentHandleRetake
    \/ AssignmentOnGoBack
    \/ SaveAssignmentSubmissionResolved
    \/ SaveAssignmentSubmissionRejected

SpecCountdown ==
    /\ InitCountdown
    /\ [][NextCountdown]_vars
    /\ WF_vars(QuizCountdownTick)
    /\ WF_vars(QuizCountdownExpired)
    /\ WF_vars(AssignmentCountdownTick)
    /\ WF_vars(AssignmentCountdownExpired)

(***************************************************************************)
(* SpecSingleAttempt: one attempt from its start to the outcome of its     *)
(* save, timed or not: the learner neither cancels nor leaves nor retakes.  *)
(***************************************************************************)
NextSingleAttempt ==
    \/ SetShowQuiz
    \/ QuizHandleStart
    \/ QuizHandleAnswerChange
    \/ QuizCountdownTick
    \/ QuizCountdownExpired
    \/ QuizHandleSubmit
    \/ SaveQuizAttemptResolved
    \/ SaveQuizAttemptRejected
    \/ HandleAssignmentSelect
    \/ AssignmentHandleStart
    \/ AssignmentHandleAnswerChange
    \/ AssignmentCountdownTick
    \/ AssignmentCountdownExpired
    \/ AssignmentHandleSubmit
    \/ SaveAssignmentSubmissionResolved
    \/ SaveAssignmentSubmissionRejected

SpecSingleAttempt == InitSession /\ [][NextSingleAttempt]_vars

(***************************************************************************)
(* SpecDeadline: one attempt at an assignment that accepts no late         *)
(* submission, opened before the due date, while the clock runs on.        *)
(***************************************************************************)
InitDeadline ==
    /\ subject = "assignment"
    /\ InitSessionIdle
    /\ now = DueDate - MsPerDay
    /\ quiz = DefaultQuiz
    /\ \E t \in SessionTimeLimits, m \in SessionAssignmentMaxAttempts :
          assignment = Assignment(SessionQuestions, FALSE, Some(10), m, t, TRUE)

NextDeadline ==
    \/ HandleAssignmentSelect
    \/ AssignmentHandleStart
    \/ AssignmentHandleAnswerChange
    \/ AssignmentCountdownTick
    \/ AssignmentCountdownExpired
    \/ AssignmentHandleSubmit
    \/ SaveAssignmentSubmissionResolved
    \/ SaveAssignmentSubmissionRejected
    \/ AdvanceClock

SpecDeadline == InitDeadline /\ [][NextDeadline]_vars

(***************************************************************************)
(* SpecVideoGate: VideoPlayer with its video, in front of an untimed quiz.  *)
(* The lecture may require the video to be completed, the viewer may be an  *)
(* instructor, and attempts of earlier visits may be stored.                *)
(***************************************************************************)
\* progress >= 90: the share of the video after which it counts as completed.
VideoCompleteAtPercent == 90
\* Values of (current / duration) * 100 that the interval reads from the player.
ProgressValues == {50, VideoCompleteAtPercent - 1, VideoCompleteAtPercent, 100}
\* At most this many attempts of earlier visits are stored.
MaxStoredAttempts == 2

\* A stored attempt of an earlier visit, as saveQuizAttempt wrote it.
StoredAttempt(passed, videoCompleted) ==
    [attempt |-> 0, via |-> "manual",
     record |-> [id |-> 0, answers |-> NoAnswers, score |-> IF passed THEN 100 ELSE 0,
                 passed |-> passed, videoCompleted |-> videoCompleted]]

\* getQuizAttempts: the learner's stored attempts for the lecture.
getQuizAttempts == [i \in 1..Len(dbQuizAttempts) |-> dbQuizAttempts[i].record]

\* The mount of VideoPlayer: its effect on [user, lectureId] has called loadQuizAttempts.
InitVideoGate ==
    /\ subject = "quiz"
    /\ svcCall = "none"
    /\ svcReturn = None
    /\ submission = DefaultSubmission
    /\ submissions = <<>>
    /\ quizAttempts = <<>>
    /\ answers = NoAnswers
    /\ NoSession
    /\ now = DueDate - MsPerDay
    /\ assignment = DefaultAssignment
    /\ quiz = Quiz(SessionQuestions, 0, Some(70), Some(-1))
    /\ dbQuizAttempts \in
          SeqsUpTo({StoredAttempt(p, v) : p \in BOOLEAN, v \in BOOLEAN}, MaxStoredAttempts)
    /\ requireVideoCompletion \in BOOLEAN
    /\ isInstructor \in BOOLEAN
    /\ isVideoCompleted = FALSE
    /\ videoProgress = 0
    /\ progressInterval = None
    /\ autoShowTimeouts = 0
    /\ attemptsRequested = TRUE
    /\ videoWatched = FALSE

\* loadQuizAttempts after await getQuizAttempts resolves.
LoadQuizAttemptsResolved ==
    /\ attemptsRequested
    /\ attemptsRequested' = FALSE
    /\ quizAttempts' = getQuizAttempts
    /\ isVideoCompleted' =
          IF \E i \in 1..Len(getQuizAttempts) : getQuizAttempts[i].videoCompleted
          THEN TRUE
          ELSE isVideoCompleted
    /\ UNCHANGED <<svcVars, cfgVars, startedAt, requireVideoCompletion, isInstructor, videoProgress,
                   progressInterval, autoShowTimeouts, videoWatched, now, subject, answers,
                   timeRemaining, expiryEffect, quizUiVars, showQuiz, currentAttempt,
                   isLoading, dbQuizAttempts, assignmentSideVars, pendingSaves, starts,
                   submitLog>>

\* loadQuizAttempts when getQuizAttempts rejects: the catch logs the error.
LoadQuizAttemptsRejected ==
    /\ attemptsRequested
    /\ attemptsRequested' = FALSE
    /\ UNCHANGED <<svcVars, cfgVars, startedAt, requireVideoCompletion, isInstructor, isVideoCompleted,
                   videoProgress, progressInterval, autoShowTimeouts, videoWatched, now,
                   subject, answers, timeRemaining, expiryEffect, quizUiVars, playerVars,
                   dbQuizAttempts, assignmentSideVars, pendingSaves, starts, submitLog>>

\* handleVideoComplete as a closure that holds the given value of isVideoCompleted;
\* stopProgressTracking clears the interval, and the timeout that shows the quiz is
\* set only when the video is not required.
handleVideoComplete(heldIsVideoCompleted) ==
    IF heldIsVideoCompleted
    THEN UNCHANGED <<isVideoCompleted, progressInterval, autoShowTimeouts>>
    ELSE /\ isVideoCompleted' = TRUE
         /\ progressInterval' = None
         /\ autoShowTimeouts' =
               IF Len(quiz.questions) > 0 /\ ~requireVideoCompletion
               THEN autoShowTimeouts + 1
               ELSE autoShowTimeouts

\* onPlayerStateChange, event.data === 1: startProgressTracking sets the interval,
\* whose callback holds the isVideoCompleted of this render.
OnPlayerPlaying ==
    /\ progressInterval' = Some(isVideoCompleted)
    /\ progressInterval' # progressInterval
    /\ UNCHANGED <<svcVars, cfgVars, startedAt, requireVideoCompletion, isInstructor, isVideoCompleted,
                   videoProgress, autoShowTimeouts, attemptsRequested, videoWatched, now,
                   subject, answers, timeRemaining, expiryEffect, quizUiVars, playerVars,
                   dbQuizAttempts, assignmentSideVars, pendingSaves, starts, submitLog>>

\* onPlayerStateChange, event.data === 2: stopProgressTracking.
OnPlayerPaused ==
    /\ progressInterval # None
    /\ progressInterval' = None
    /\ UNCHANGED <<svcVars, cfgVars, startedAt, requireVideoCompletion, isInstructor, isVideoCompleted,
                   videoProgress, autoShowTimeouts, attemptsRequested, videoWatched, now,
                   subject, answers, timeRemaining, expiryEffect, quizUiVars, playerVars,
                   dbQuizAttempts, assignmentSideVars, pendingSaves, starts, submitLog>>

\* The callback of the progress interval.
ProgressIntervalTick ==
    /\ progressInterval # None
    /\ \E progress \in ProgressValues :
          /\ videoProgress' = progress
          /\ videoWatched' = (videoWatched \/ progress >= VideoCompleteAtPercent)
          /\ IF progress >= VideoCompleteAtPercent /\ ~progressInterval[1]
             THEN handleVideoComplete(progressInterval[1])
             ELSE UNCHANGED <<isVideoCompleted, progressInterval, autoShowTimeouts>>
    /\ UNCHANGED <<svcVars, cfgVars, startedAt, requireVideoCompletion, isInstructor,
                   attemptsRequested, now, subject, answers, timeRemaining, expiryEffect,
                   quizUiVars, playerVars, dbQuizAttempts, assignmentSideVars,
                   pendingSaves, starts, submitLog>>

\* onPlayerStateChange, event.data === 0: the video has ended.
OnPlayerEnded ==
    /\ ~videoWatched \/ ~isVideoCompleted
    /\ videoWatched' = TRUE
    /\ handleVideoComplete(isVideoCompleted)
    /\ UNCHANGED <<svcVars, cfgVars, startedAt, requireVideoCompletion, isInstructor, videoProgress,
                   attemptsRequested, now, subject, answers, timeRemaining, expiryEffect,
                   quizUiVars, playerVars, dbQuizAttempts, assignmentSideVars,
                   pendingSaves, starts, submitLog>>

\* The timeout set by handleVideoComplete runs: setShowQuiz(true).
AutoShowTimeout ==
    /\ autoShowTimeouts > 0
    /\ autoShowTimeouts' = autoShowTimeouts - 1
    /\ showQuiz' = TRUE
    /\ UNCHANGED <<svcVars, cfgVars, startedAt, requireVideoCompletion, isInstructor, isVideoCompleted,
                   videoProgress, progressInterval, attemptsRequested, videoWatched, now,
                   subject, answers, timeRemaining, expiryEffect, quizUiVars, quizAttempts,
                   currentAttempt, isLoading, dbQuizAttempts, assignmentSideVars,
                   pendingSaves, starts, submitLog>>

NextVideoGate ==
    \/ LoadQuizAttemptsResolved
    \/ LoadQuizAttemptsRejected
    \/ OnPlayerPlaying
    \/ OnPlayerPaused
    \/ ProgressIntervalTick
    \/ OnPlayerEnded
    \/ AutoShowTimeout
    \/ SetShowQuiz
    \/ QuizHandleStart
    \/ QuizOnCancel

SpecVideoGate == InitVideoGate /\ [][NextVideoGate]_vars

(***************************************************************************)
(* Claims about the service functions (SpecService).                       *)
(***************************************************************************)
GradeReturned == svcCall = "autoGradeSubmission" /\ Returned
ResultReturned == svcCall = "calculateAssignmentResult" /\ Returned
CanSubmitReturned == svcCall = "canSubmitAssignment" /\ Returned
QuizGateReturned == svcCall = "quizGate" /\ Returned

\* The due-date rule of the attempt policy denies.
DueDateDenies == now > assignment.dueDate /\ ~assignment.allowLateSubmission

\* C1: the score autoGradeSubmission returns (after the late penalty) is never
\* greater than the raw score, whatever the lateness, the submission time, the
\* due date and the per-day penalty rate.
C1_FinalNeverAboveRaw ==
    GradeReturned => svcReturn[1] <= autoGradeRawScore(submission, assignment)

\* C2: for a submission that is not late, autoGradeSubmission returns the raw
\* score exactly, whatever the configured latePenalty.
C2_NotLateKeepsRaw ==
    (GradeReturned /\ ~submission.isLate)
        => svcReturn[1] = autoGradeRawScore(submission, assignment)

\* A graded on-time submission, handed in two days early, with points earned
\* and a late penalty configured.
C2_Witness ==
    /\ GradeReturned
    /\ ~submission.isLate
    /\ submission.submittedAt = DueDate - 2 * MsPerDay
    /\ TruthyNum(assignment.latePenalty)
    /\ svcReturn[1] > 0

\* C4: maxAttempts = -1 never blocks: when the due-date rule does not deny,
\* canSubmitAssignment permits for every number of prior submissions, and the
\* quiz gate of VideoPlayer offers the start button for every list of prior attempts.
C4_UnlimitedNeverBlocks ==
    /\ (CanSubmitReturned /\ assignment.maxAttempts = -1 /\ ~DueDateDenies)
          => svcReturn[1] = TRUE
    /\ (QuizGateReturned /\ quiz.maxAttempts = Some(-1)) => svcReturn[1] = TRUE

\* Unlimited attempts, the largest number of prior submissions, permitted.
C4_Witness ==
    /\ CanSubmitReturned
    /\ assignment.maxAttempts = -1
    /\ ~DueDateDenies
    /\ Len(submissions) = MaxPrior
    /\ svcReturn[1] = TRUE

\* C5: for maxAttempts = N >= 1 and a time the due-date rule allows,
\* canSubmitAssignment returns false exactly when the number of prior
\* submissions is at least N, whatever allowLateSubmission is.
C5_CapBlocksExactlyAtN ==
    (CanSubmitReturned /\ assignment.maxAttempts >= 1 /\ ~DueDateDenies)
        => (svcReturn[1] = FALSE <=> Len(submissions) >= assignment.maxAttempts)

\* Scenario E: N = 1, one prior submission, late submission allowed, before the
\* due date: refused.
C5_Witness ==
    /\ CanSubmitReturned
    /\ assignment.maxAttempts = 1
    /\ Len(submissions) = 1
    /\ assignment.allowLateSubmission
    /\ now < assignment.dueDate
    /\ svcReturn[1] = FALSE

\* C6: strictly after the due date with late submission not allowed,
\* canSubmitAssignment returns false for every maxAttempts (also -1) and every
\* number of prior submissions.
C6_PastDueDenies ==
    (CanSubmitReturned /\ now > assignment.dueDate /\ ~assignment.allowLateSubmission)
        => svcReturn[1] = FALSE

\* One millisecond past the due date, unlimited attempts, no prior submission: refused.
C6_Witness ==
    /\ CanSubmitReturned
    /\ now = DueDate + 1
    /\ ~assignment.allowLateSubmission
    /\ assignment.maxAttempts = -1
    /\ submissions = <<>>
    /\ svcReturn[1] = FALSE

\* C7: when showAnswersAfterDeadline is off or now is not strictly after the due
\* date, the result has canViewAnswers false and every feedback entry has
\* correctAnswer and explanation undefined.
C7_HiddenAnswersStripped ==
    (ResultReturned /\ ~(assignment.showAnswersAfterDeadline /\ now > assignment.dueDate))
        => /\ svcReturn[1].canViewAnswers = FALSE
           /\ \A i \in 1..Len(svcReturn[1].feedback) :
                 /\ svcReturn[1].feedback[i].correctAnswer = Undefined
                 /\ svcReturn[1].feedback[i].explanation = Undefined

\* Exactly at the due date with showAnswersAfterDeadline on, for a question that
\* has both a correct answer and an explanation.
C7_Witness ==
    /\ ResultReturned
    /\ assignment.showAnswersAfterDeadline
    /\ now = assignment.dueDate
    /\ assignment.questions[1].correctAnswer # Undefined
    /\ assignment.questions[1].explanation # Undefined
    /\ svcReturn[1].feedback[1].correctAnswer = Undefined

(***************************************************************************)
(* Claims about sessions (SpecSession, SpecCountdown).                     *)
(***************************************************************************)
\* The documents persisted for the subject at hand, and its configured cap.
PersistedRecords == IF subject = "quiz" THEN dbQuizAttempts ELSE dbSubmissions
ConfiguredMaxAttempts ==
    IF subject = "quiz" THEN maxAttemptsOrDefault(quiz.maxAttempts) ELSE assignment.maxAttempts
SubmitCalls(k, via) ==
    {i \in 1..Len(submitLog) : submitLog[i].attempt = k /\ submitLog[i].via = via}
\* Saves of attempt k that were issued by the given origin and have not failed.
LiveSaves(k, via) ==
    {<<"pending", i>> : i \in {j \in 1..Len(pendingSaves) :
          pendingSaves[j].attempt = k /\ pendingSaves[j].via = via}}
    \cup {<<"persisted", i>> : i \in {j \in 1..Len(PersistedRecords) :
          PersistedRecords[j].attempt = k /\ PersistedRecords[j].via = via}}
EachAttemptSubmittedOnce ==
    \A i, j \in 1..Len(submitLog) : i # j => submitLog[i].attempt # submitLog[j].attempt
Completed == IF subject = "quiz" THEN quizCompleted ELSE assignmentCompleted

\* C3: with maxAttempts = N >= 1, the number of persisted completed attempts never
\* exceeds N (stated for the runs in which no attempt is submitted twice, so that
\* only start and retake are responsible for what is persisted).
C3_PersistedNeverExceedCap ==
    (ConfiguredMaxAttempts >= 1 /\ EachAttemptSubmittedOnce)
        => Len(PersistedRecords) <= ConfiguredMaxAttempts

\* C8: submission is idempotent per attempt: whatever number of submit calls are made
\* on an attempt, at most one record of that attempt is persisted.
C8_OneRecordPerAttempt ==
    \A i, j \in 1..Len(PersistedRecords) :
        i # j => PersistedRecords[i].attempt # PersistedRecords[j].attempt

\* C9: of a manual submit and the timer-expiry submit of one attempt exactly one
\* submits: never do both have a save of that attempt under way or persisted.
C9_OneSubmitterWins ==
    \A k \in 1..MaxStarts : LiveSaves(k, "manual") = {} \/ LiveSaves(k, "timer") = {}

\* C10: with a time limit of T > 0 minutes and no manual submit or cancel, the
\* countdown starts at 60*T, decreases by one per tick, the attempt is submitted by
\* the timer exactly once, at zero, and the countdown then stays stopped.
C10_Step ==
    /\ starts' = starts + 1 => timeRemaining' = Some(60 * ConfiguredTimeLimit)
    /\ (starts' = starts /\ timeRemaining' # timeRemaining /\ timeRemaining' # None)
          => (timeRemaining # None /\ timeRemaining'[1] = timeRemaining[1] - 1)
    /\ Len(submitLog') > Len(submitLog)
          => /\ timeRemaining = Some(0)
             /\ submitLog'[Len(submitLog')].attempt = starts
             /\ submitLog'[Len(submitLog')].via = "timer"
             /\ Completed'
C10_Inv ==
    /\ \A k \in 1..MaxStarts : Cardinality(SubmitCalls(k, "timer")) <= 1
    /\ SubmitCalls(starts, "timer") # {} => timeRemaining \in {None, Some(0)}
ScenarioC ==
    /\ GradeReturned
    /\ assignment.questions = ScenarioCQuestions
    /\ assignment.latePenalty = Some(10)
    /\ submission.submittedAt = DueDate + 2 * MsPerDay + MsPerHour
    /\ submission.answers["q1"] = Num(1)
    /\ submission.answers["q2"] # Num(0)

\* C11 as stated: in Scenario C the final score is 70.
C11_ScenarioCFinal70 == ScenarioC => svcReturn[1] = 70

\* C11 as amended: in Scenario C the submission is 49 hours late, which is 3 days
\* by ceiling, the penalty is 30 and the final score is 60.
C11_ScenarioCFinal60 == ScenarioC => svcReturn[1] = 60

\* Scenario C graded: raw score 90, returned score 60.
C11_Witness ==
    /\ ScenarioC
    /\ submission.isLate
    /\ 2 * totalPointsOf(assignment.questions) = 20
    /\ svcReturn[1] = 60

\* C16: for every late submission the returned score is
\* max(0, raw - min(rate * daysLate, 100)) with daysLate the least whole number
\* of days covering the lateness, at least 1; the penalty is at most 100 and the
\* score is never negative.
C16_LatePenaltyFormula ==
    (GradeReturned /\ submission.isLate)
        => LET raw == autoGradeRawScore(submission, assignment)
               rate == IF assignment.latePenalty = None THEN 0 ELSE assignment.latePenalty[1]
               late == submission.submittedAt - assignment.dueDate
           IN  /\ late > 0
               /\ \E daysLate \in 1..(late \div MsPerDay + 1) :
                     /\ (daysLate - 1) * MsPerDay < late
                     /\ late <= daysLate * MsPerDay
                     /\ LET product == rate * daysLate
                            penalty == IF product < 100 THEN product ELSE 100
                        IN  /\ penalty <= 100
                            /\ svcReturn[1] = IF raw - penalty > 0 THEN raw - penalty ELSE 0
               /\ svcReturn[1] >= 0

\* Two days late at 60 percent per day: the penalty 120 is capped at 100 and a
\* raw score of 100 becomes 0.
C16_Witness ==
    /\ GradeReturned
    /\ submission.isLate
    /\ submission.submittedAt = DueDate + MsPerDay + 1
    /\ assignment.latePenalty = Some(60)
    /\ autoGradeRawScore(submission, assignment) = 100
    /\ svcReturn[1] = 0

\* The sum of a sequence of numbers.
RECURSIVE SeqSum(_)
SeqSum(q) == IF q = <<>> THEN 0 ELSE Head(q) + SeqSum(Tail(q))

\* A question of an auto-gradable type answered as its key says.
AnsweredCorrectly(question, userAnswer) ==
    \/ question.type = "multiple-choice" /\ userAnswer = question.correctAnswer
    \/ question.type = "short-answer"
          /\ normalizeAnswer(userAnswer) = normalizeAnswer(question.correctAnswer)

\* C17: the raw score is round-half-up of 100 * earned / total over the points of
\* the questions, an integer in 0..100, and 0 when the total is 0 (observed where
\* no late penalty applies).
C17_RawScoreRoundHalfUp ==
    (GradeReturned /\ ~(submission.isLate /\ TruthyNum(assignment.latePenalty)))
        => LET qs == assignment.questions
               total == SeqSum([i \in 1..Len(qs) |-> qs[i].points])
               earned == SeqSum([i \in 1..Len(qs) |->
                            IF AnsweredCorrectly(qs[i], submission.answers[qs[i].id])
                            THEN qs[i].points ELSE 0])
           IN  /\ svcReturn[1] \in 0..100
               /\ total = 0 => svcReturn[1] = 0
               /\ total > 0 => /\ 2 * total * svcReturn[1] <= 200 * earned + total
                               /\ 200 * earned + total < 2 * total * (svcReturn[1] + 1)

\* The grading paths that have returned.
ShownReturned == svcCall = "calculateResults" /\ Returned
PersistedReturned == svcCall = "handleQuizSubmit" /\ Returned
QuizResultReturned == svcCall = "calculateQuizResult" /\ Returned

\* C12: for the quiz of Scenarios A and B (multiple-choice questions worth 2 and 3
\* points, passing score 70) the result shown and the attempt persisted both have
\* score 40 and passed false when only the 2-point question is answered correctly,
\* and score 100 and passed true when both are.
C12_ScenarioScores ==
    ((ShownReturned \/ PersistedReturned)
        /\ quiz.questions = ChoiceQuestions
        /\ quiz.passingScore = Some(70)
        /\ answers["q1"] = Num(1))
        => IF answers["q2"] = Num(0)
           THEN svcReturn[1].score = 100 /\ svcReturn[1].passed = TRUE
           ELSE svcReturn[1].score = 40 /\ svcReturn[1].passed = FALSE

\* C14: with maxAttempts = N >= 1 and at least N prior attempts the quiz gate
\* refuses a new attempt, whether or not a prior attempt passed.
C14_CountBlocksPassedToo ==
    (QuizGateReturned
        /\ quiz.maxAttempts # None
        /\ quiz.maxAttempts[1] >= 1
        /\ Len(quizAttempts) >= quiz.maxAttempts[1])
        => svcReturn[1] = FALSE

\* An answer that is no answer: undefined or the empty string.
NoAnswerGiven(userAnswer) == userAnswer = Undefined \/ userAnswer = Str(<<>>)
AllUnanswered(qs, given) == \A i \in 1..Len(qs) : NoAnswerGiven(given[qs[i].id])

\* C18: a question whose answer is undefined or empty never earns points, in every
\* grading path and whatever its correctAnswer: its feedback entry is not correct
\* and earns 0, and a submission with no answer at all scores 0.
C18_UnansweredNeverEarns ==
    /\ GradeReturned /\ AllUnanswered(assignment.questions, submission.answers)
          => svcReturn[1] = 0
    /\ PersistedReturned /\ AllUnanswered(quiz.questions, answers)
          => svcReturn[1].score = 0
    /\ ResultReturned
          => \A i \in 1..Len(assignment.questions) :
                NoAnswerGiven(submission.answers[assignment.questions[i].id])
                   => /\ svcReturn[1].feedback[i].isCorrect # "true"
                      /\ svcReturn[1].feedback[i].earnedPoints = 0
    /\ ShownReturned
          => \A i \in 1..Len(quiz.questions) :
                NoAnswerGiven(answers[quiz.questions[i].id])
                   => svcReturn[1].feedback[i].isCorrect = FALSE
    /\ QuizResultReturned
          => \A i \in 1..Len(quiz.questions) :
                NoAnswerGiven(answers[quiz.questions[i].id])
                   => /\ svcReturn[1].feedback[i].isCorrect = FALSE
                      /\ svcReturn[1].feedback[i].earnedPoints = 0

\* Lower-cased and trimmed on both sides, the response equals the key.
ShortAnswerMatches(question, userAnswer) ==
    /\ userAnswer # Undefined
    /\ question.correctAnswer # Undefined
    /\ trim(toLowerCase(userAnswer.s)) = trim(toLowerCase(question.correctAnswer.s))
ShortAnswerFirst(qs) == qs[1].type = "short-answer" /\ qs[2].type = "essay"

\* C19: a short-answer response is graded correct exactly when it equals the key
\* after lower-casing and trimming, in the quiz result shown, the quiz attempt
\* persisted, the assignment auto-grade and the assignment feedback (for question
\* lists whose only auto-gradable question is the short-answer question q1, a
\* score above 0 says that q1 was graded correct).
C19_ShortAnswerNormalised ==
    /\ ShownReturned /\ ShortAnswerFirst(quiz.questions)
          => (svcReturn[1].feedback[1].isCorrect
                 <=> ShortAnswerMatches(quiz.questions[1], answers["q1"]))
    /\ PersistedReturned /\ ShortAnswerFirst(quiz.questions)
          => (svcReturn[1].score > 0
                 <=> ShortAnswerMatches(quiz.questions[1], answers["q1"]))
    /\ GradeReturned /\ ShortAnswerFirst(assignment.questions) /\ ~submission.isLate
          => (svcReturn[1] > 0
                 <=> ShortAnswerMatches(assignment.questions[1], submission.answers["q1"]))
    /\ ResultReturned /\ ShortAnswerFirst(assignment.questions)
          => (svcReturn[1].feedback[1].isCorrect = "true"
                 <=> ShortAnswerMatches(assignment.questions[1], submission.answers["q1"]))

\* C20: in every result the feedback entry of an essay or file-upload question has
\* isCorrect undefined, neither true nor false, and earns 0 points, whatever the
\* answer (the result QuizInterface shows has no points in its entries).
C20_EssayNeverAutoGraded ==
    /\ ResultReturned
          => \A i \in 1..Len(assignment.questions) :
                assignment.questions[i].type \in {"essay", "file-upload"}
                   => /\ svcReturn[1].feedback[i].isCorrect = "undefined"
                      /\ svcReturn[1].feedback[i].earnedPoints = 0
    /\ QuizResultReturned
          => \A i \in 1..Len(quiz.questions) :
                quiz.questions[i].type \in {"essay", "file-upload"}
                   => /\ svcReturn[1].feedback[i].isCorrect \notin BOOLEAN
                      /\ svcReturn[1].feedback[i].earnedPoints = 0
    /\ ShownReturned
          => \A i \in 1..Len(quiz.questions) :
                quiz.questions[i].type \in {"essay", "file-upload"}
                   => svcReturn[1].feedback[i].isCorrect \notin BOOLEAN


(***************************************************************************)
(* Claims about submitting (SpecSingleAttempt).                            *)
(***************************************************************************)
\* The step is a call of onSubmit by the given submitter.
SubmittedVia(via) ==
    /\ Len(submitLog') = Len(submitLog) + 1
    /\ submitLog'[Len(submitLog')].via = via

\* No question the submit button waits for is without a non-empty answer.
AnswersComplete ==
    IF subject = "quiz"
    THEN \A i \in 1..Len(quiz.questions) :
            ~NoAnswerGiven(answers[quiz.questions[i].id])
    ELSE \A i \in 1..Len(assignment.questions) :
            assignment.questions[i].required
               => ~NoAnswerGiven(answers[assignment.questions[i].id])

\* The save that a submission of the given answers issues.
SaveIssuedFor(given) ==
    /\ Len(pendingSaves') = Len(pendingSaves) + 1
    /\ pendingSaves'[Len(pendingSaves')].record.answers = given
    /\ pendingSaves'[Len(pendingSaves')].record.score =
          IF subject = "quiz"
          THEN completedAttemptOf([id |-> 0, startedAt |-> now], quiz, given, now).score
          ELSE Some(autoGradeSubmission(pendingSaves'[Len(pendingSaves')].record, assignment))

\* The expiry of the countdown submits whatever the answers are.
TimerSubmitsAnyway ==
    /\ SubmittedVia("timer")
    /\ Completed' \/ (IF subject = "quiz" THEN ~showQuiz ELSE ~showAssignmentInterface)
    /\ subject = "quiz" /\ showQuiz
          => quizResult' = Some(calculateResults(quiz, expiryEffect[1].answers))
    /\ subject = "assignment" \/ expiryEffect[1].parent # None
          => SaveIssuedFor(expiryEffect[1].answers)

\* C13: a manual submit happens only when every required question (for a quiz: every
\* question) has a non-empty answer, while the expiry of the countdown always
\* submits, complete or not, and what it submits is graded on the answers given so far.
C13_ManualNeedsCompleteTimerDoesNot ==
    /\ [][SubmittedVia("manual") => AnswersComplete]_vars
    /\ [][EffectPending => ENABLED (QuizCountdownExpired \/ AssignmentCountdownExpired)]_vars
    /\ [][(QuizCountdownExpired \/ AssignmentCountdownExpired) => TimerSubmitsAnyway]_vars

\* A countdown has submitted an attempt in which nothing was answered, and the save of
\* these answers is under way.
C13_Witness ==
    /\ submitLog # <<>>
    /\ submitLog[Len(submitLog)].via = "timer"
    /\ Completed
    /\ pendingSaves # <<>>
    /\ LET save == pendingSaves[Len(pendingSaves)]
       IN  /\ save.via = "timer"
           /\ \A id \in DOMAIN save.record.answers : save.record.answers[id] = Undefined


(***************************************************************************)
(* Claims about the video gate (SpecVideoGate).                            *)
(***************************************************************************)
\* An attempt stored on an earlier visit recorded the video as completed.
EarlierAttemptRecordedVideo ==
    \E i \in 1..Len(dbQuizAttempts) : dbQuizAttempts[i].record.videoCompleted

\* The lecture requires the video, the viewer is a learner, and the video has been
\* completed neither now nor on record.
VideoRequiredAndNotCompleted ==
    /\ requireVideoCompletion
    /\ ~isInstructor
    /\ ~videoWatched
    /\ ~EarlierAttemptRecordedVideo

\* C15: while the lecture requires the video and the learner has not completed it
\* (it has neither ended nor been watched to 90 percent, and no earlier attempt recorded
\* it), the quiz interface is not open, whether through the start button or through
\* the automatic show after the video, and no attempt has been started.
C15_NoQuizBeforeVideo ==
    VideoRequiredAndNotCompleted
       => ~showQuiz /\ autoShowTimeouts = 0 /\ currentAttempt = None /\ starts = 0

\* The learner has watched a required video up to just below the threshold, the stored
\* attempts are loaded, and the quiz is still locked.
C15_Witness ==
    /\ VideoRequiredAndNotCompleted
    /\ videoProgress = VideoCompleteAtPercent - 1
    /\ ~attemptsRequested
    /\ quizAttempts # <<>>
    /\ ~canAccessQuiz
    /\ ~showQuiz


(***************************************************************************)
(* Claims about the countdown (SpecSingleAttempt, SpecSession).            *)
(***************************************************************************)
\* The countdown has submitted at some point.
TimerSubmitted == \E i \in 1..Len(submitLog) : submitLog[i].via = "timer"

InProgress ==
    IF subject = "quiz"
    THEN showQuiz /\ quizStarted /\ ~quizCompleted
    ELSE showAssignmentInterface /\ assignmentStarted /\ ~assignmentCompleted

\* A step of the countdown: a tick or the submission at its expiry.
CountdownStep ==
    \/ timeRemaining' # timeRemaining /\ timeRemaining' # None /\ timeRemaining # None
    \/ /\ Len(submitLog') = Len(submitLog) + 1
       /\ submitLog'[Len(submitLog')].via = "timer"

\* C22: once the countdown is cancelled (the attempt is exited, submitted, retaken or
\* its interface torn down, so that no attempt is in progress), no tick changes the
\* remaining time and the countdown submits nothing; a start sets the counter to the
\* full limit, and only when no attempt is in progress.
C22_NoCountdownAfterCancel ==
    /\ [][CountdownStep => InProgress]_vars
    /\ [][starts' = starts + 1 =>
            /\ ~InProgress
            /\ ~EffectPending
            /\ ConfiguredTimeLimit > 0 =>
                  timeRemaining' = Some(initialTimeRemaining(ConfiguredTimeLimit))]_vars


(***************************************************************************)
(* Claims about the session's transitions.                                 *)
(***************************************************************************)
\* The step is a call of onSubmit.
SubmitStep == Len(submitLog') = Len(submitLog) + 1

\* The step is an answer given by the learner.
AnswerStep == QuizHandleAnswerChange \/ AssignmentHandleAnswerChange

\* C23: an answer is taken and a submission is made only while the attempt is in
\* progress: started and not yet completed.  Before the start and after the completion
\* neither the answers nor the saves under way change through them.
C23_AnswerAndSubmitOnlyInProgress ==
    [][AnswerStep \/ SubmitStep => InProgress]_vars


(***************************************************************************)
(* Claims about what is persisted.                                         *)
(***************************************************************************)
\* The save issued last.
LastSave == pendingSaves[Len(pendingSaves)]

\* The step issues a save.
SaveIssued == Len(pendingSaves') = Len(pendingSaves) + 1

\* Whole seconds between two clock readings.
WholeSeconds(from, to) == (to - from) \div MsPerSecond

\* A quiz attempt handed to saveQuizAttempt carries the whole seconds from its start to
\* its completion.
QuizTimeSpentIsElapsed ==
    subject = "quiz" =>
       \A i \in 1..Len(pendingSaves) :
          LET saved == pendingSaves[i].record
          IN  /\ saved.completedAt >= saved.startedAt
              /\ saved.timeSpent = WholeSeconds(saved.startedAt, saved.completedAt)

\* An assignment submission handed to saveAssignmentSubmission carries the whole
\* seconds from the start of the attempt to the submission.
AssignmentTimeSpentIsElapsed ==
    subject = "assignment" /\ SaveIssued =>
       LET saved == pendingSaves'[Len(pendingSaves')].record
       IN  /\ saved.submittedAt >= startedAt[1]
           /\ saved.timeSpent = WholeSeconds(startedAt[1], saved.submittedAt)

\* C24: every submitted attempt, quiz or assignment, stores as time spent the whole
\* seconds from startedAt to completedAt, and completedAt is not before startedAt.
C24_TimeSpentIsElapsed ==
    /\ []QuizTimeSpentIsElapsed
    /\ [][AssignmentTimeSpentIsElapsed]_vars


\* The records handed to the store whose save is under way or has been acknowledged.
LiveRecords ==
    {pendingSaves[i].record : i \in 1..Len(pendingSaves)}
       \cup {PersistedRecords[i].record : i \in 1..Len(PersistedRecords)}

\* The i-th call of onSubmit handed over a record whose save has failed.
SaveFailed(i) ==
    /\ submitLog[i].saved # None
    /\ submitLog[i].saved[1] \notin LiveRecords

\* C25: when the save of a completed attempt has failed, a further submission of that
\* attempt hands the store the record that failed (same id, completion time, lateness
\* flag and score): the attempt is not graded again.
C25_RetryPersistsSameAttempt ==
    [][SubmitStep =>
          \A i \in 1..Len(submitLog) :
             submitLog[i].attempt = submitLog'[Len(submitLog')].attempt /\ SaveFailed(i)
                => submitLog'[Len(submitLog')].saved = submitLog[i].saved]_vars


\* The result view of the mounted interface is on screen.
ResultShown ==
    IF subject = "quiz" THEN QuizView = "results" ELSE AssignmentView = "results"

\* The save of the attempt whose result is on screen has been acknowledged.
ShownAttemptPersisted ==
    IF subject = "quiz"
    THEN \E i \in 1..Len(dbQuizAttempts) : dbQuizAttempts[i].attempt = starts
    ELSE \E i \in 1..Len(dbSubmissions) :
            dbSubmissions[i].record = assignmentSubmissions[1]

\* C26: a result (score, verdict, feedback) is on screen only for an attempt whose
\* save has been acknowledged.
C26_ResultOnlyAfterPersisted == ResultShown => ShownAttemptPersisted


(***************************************************************************)
(* Claims about the two gradings of a quiz submission (SpecService).       *)
(***************************************************************************)
\* C27: for every quiz and every answer map, the score and the verdict that
\* calculateResults shows equal the score and the verdict of the attempt that
\* handleQuizSubmit hands to the store for the same answers.
C27_ShownEqualsPersisted ==
    /\ ShownReturned =>
          LET persisted == completedAttemptOf([id |-> 1, startedAt |-> now], quiz, answers, now)
          IN  /\ svcReturn[1].score = persisted.score
              /\ svcReturn[1].passed = persisted.passed
    /\ PersistedReturned =>
          LET shown == calculateResults(quiz, answers)
          IN  /\ svcReturn[1].score = shown.score
              /\ svcReturn[1].passed = shown.passed


(***************************************************************************)
(* Claims about the due date (SpecDeadline).                               *)
(***************************************************************************)
\* C28: when the assignment accepts no late submission, no persisted submission is
\* late: an attempt started before the due date is not submitted, by hand or by the
\* countdown, once the due date has passed.
C28_NoLateSubmissionPersisted ==
    subject = "assignment" /\ ~assignment.allowLateSubmission
       => \A i \in 1..Len(dbSubmissions) : ~dbSubmissions[i].record.isLate


(***************************************************************************)
(* Claims about what a result reveals (SpecService).                       *)
(***************************************************************************)
\* Keys and explanation texts an author may have configured instead.
OtherKeys == {Num(0), Num(1), Str(<<"a">>), Str(<<"b">>)}
OtherExplanations == {Undefined, Str(<<"x">>), Str(<<"y">>)}

\* The assignments that differ from a at most in the correctAnswer and the
\* explanation of their questions.
SameButKeysAndExplanations(a) ==
    {[a EXCEPT !.questions = qs] :
        qs \in {v \in [1..Len(a.questions) ->
                         {[a.questions[i] EXCEPT !.correctAnswer = k, !.explanation = e] :
                             i \in 1..Len(a.questions),
                             k \in OtherKeys, e \in OtherExplanations}] :
                   \A i \in 1..Len(a.questions) :
                      v[i] = [a.questions[i] EXCEPT
                                 !.correctAnswer = v[i].correctAnswer,
                                 !.explanation = v[i].explanation]}}

\* Both results tell the same about the correctness of every answer.
SameCorrectness(one, other) ==
    \A i \in 1..Len(one.feedback) :
       /\ one.feedback[i].isCorrect = other.feedback[i].isCorrect
       /\ one.feedback[i].earnedPoints = other.feedback[i].earnedPoints

\* C29: while canViewAnswers is false, two assignments that differ only in explanation
\* texts and in correctAnswer values that leave every question's isCorrect unchanged
\* yield results equal in every field: the result tells nothing about keys and
\* explanations beyond the correctness of each answer.
C29_HiddenKeysDoNotShowInResult ==
    ResultReturned /\ ~svcReturn[1].canViewAnswers
       => \A other \in SameButKeysAndExplanations(assignment) :
             LET otherResult == calculateAssignmentResult(submission, other, now)
             IN  SameCorrectness(svcReturn[1], otherResult) => otherResult = svcReturn[1]

\* What the claim says of the feedback alone does hold.
C29_FeedbackAloneIsBlind ==
    ResultReturned /\ ~svcReturn[1].canViewAnswers
       => \A other \in SameButKeysAndExplanations(assignment) :
             LET otherResult == calculateAssignmentResult(submission, other, now)
             IN  SameCorrectness(svcReturn[1], otherResult)
                    => otherResult.feedback = svcReturn[1].feedback


(***************************************************************************)
(* Claims about leaving an attempt (SpecSession).                          *)
(***************************************************************************)
\* The step is onCancel of a quiz attempt in progress.
CancelStep == subject = "quiz" /\ InProgress /\ ~showQuiz' /\ starts' = starts

\* The latest quiz attempt was left by onCancel and nothing has submitted it.
ExitedUnsubmitted ==
    /\ subject = "quiz"
    /\ ~showQuiz
    /\ starts > 0
    /\ \A i \in 1..Len(submitLog) : submitLog[i].attempt # starts

\* C30: onCancel of an attempt in progress persists nothing and leaves the stored
\* attempts and the attempt count as they were, no save of the exited attempt is
\* issued afterwards, and the next start has an empty answer map and, with a time
\* limit, the full countdown.
C30_CancelPersistsNothing ==
    /\ [][CancelStep => UNCHANGED <<pendingSaves, dbQuizAttempts, quizAttempts>>]_vars
    /\ [][ExitedUnsubmitted /\ Len(submitLog') > Len(submitLog)
             => submitLog'[Len(submitLog')].saved = None]_vars
    /\ [][subject = "quiz" /\ starts' = starts + 1
             => /\ answers' = NoAnswers
                /\ ConfiguredTimeLimit > 0
                      => timeRemaining' = Some(initialTimeRemaining(ConfiguredTimeLimit))]_vars

=============================================================================
